---- MODULE Spec2Model ----
(***************************************************************************)
(* Model of the demo aggregation pipeline of src/main.go (ParseDemo): the  *)
(* event handlers registered on the decoder, the state they share, and the *)
(* assembly of the exported document.  The decoder is the environment: it  *)
(* owns the game state (tick, team scores, match-started query, team       *)
(* membership) and dispatches one event at a time.                         *)
(***************************************************************************)
EXTENDS Integers, Sequences, FiniteSets, TLC

(***************************************************************************)
(* Bounds of the model                                                     *)
(***************************************************************************)
NumPlayers == 7
MaxRounds == 2
MaxScore == 1
MaxTick == 1
ScoresMaxRounds == 1
RosterMovers == 2
RosterMaxRounds == 2
RosterMaxTickCount == 4
EffMaxEffects == 2
EffMaxTick == 45
EffMaxTickCount == 12
EffMaxRounds == 1
NumEntities == 1
DurMaxEffects == 2
DurMaxTickCount == 4
DurMaxTick == 2
FreezeMaxRounds == 2
FreezeMaxTick == 2
FireMaxFires == 2
FireMaxTickCount == 8
FireMaxRounds == 1
KillMaxKills == 2
KillMaxRounds == 1
StatsMaxKills == 2
StatsMaxTickCount == 8
StatsMaxRounds == 1
FlashMaxEffects == 3
FlashMaxBlinds == 2
FlashMaxTickCount == 4
FlashMaxRounds == 1
ExportMaxKills == 1
BridgeMaxRequests == 1
ExpiryMaxEffects == 2
TallyMaxKills == 2
ResetMaxEffects == 2
BombMaxRounds == 1
BlindMaxEffects == 2
BlindMaxBlinds == 2
BlindMaxTickCount == 8
PageMaxRequests == 2
BombMaxTickCount == 8
ResetMaxRounds == 2
ResetMaxTick == 2
ResetMaxTickCount == 4
TallyMaxTickCount == 4
ExpiryMaxSlack == 1
ExpiryMaxTickCount == 4
BridgeMaxSlack == 1
IdsMaxEffects == 3
IdsMaxRounds == 1
IdsMaxTickCount == 4
ExportMaxRounds == 1
ExportMaxTickCount == 4

(***************************************************************************)
(* Program constants                                                       *)
(***************************************************************************)
tickSkip == 4
smokeDurationTicks == 1152
molotovDurationTicks == 448
flashDurationTicks == 32
heDurationTicks == 20
DefaultTickRate == 64

Players == 1..NumPlayers
Teams == {"CT", "T", "SPEC"}
EntityIDs == 1..NumEntities
TickSteps == {1, flashDurationTicks}
TickRates == {-1, 0, DefaultTickRate, 2 * DefaultTickRate}
Errors == {"nil", "ErrUnexpectedEndOfDemo", "other"}
NoDoc == [ok |-> FALSE]

\* background.js, lines 1-2
CHUNK_SIZE == 512 * 1024
CACHE_TTL_MS == 10 * 60 * 1000

\* The url values of the messages, with the protocol new URL(value) gives
\* them ("" when the constructor throws)
Urls == {"https://cdn.example/demo.zst", "http://cdn.example/demo.zst",
         "file:///etc/passwd", "no url"}
UrlProtocol(value) ==
    CASE value = "https://cdn.example/demo.zst" -> "https:"
      [] value = "http://cdn.example/demo.zst" -> "http:"
      [] value = "file:///etc/passwd" -> "file:"
      [] OTHER -> ""

\* who posted a message: the viewer's fetchArchiveViaExtension or anything
\* else (another tab, the content script's own requests, a late delivery)
Senders == {"viewer", "other"}
\* byteLength of a downloaded archive
ArchiveSizes == {0, CHUNK_SIZE + 1}
\* request ids a message can name (0: an id never given out)
RequestIds == 0..BridgeMaxRequests
ChunkOffsets == {0, CHUNK_SIZE}
\* archive lengths and offsets around the chunk boundaries
TransferSizes == {0, 1, CHUNK_SIZE, CHUNK_SIZE + 1, 2 * CHUNK_SIZE}
TransferOffsets == {-1, 0, 1, CHUNK_SIZE, 3 * CHUNK_SIZE}
NoRequest == 0
NoFetch == ""
NoResponse == [to |-> "", type |-> "", ok |-> FALSE, error |-> ""]
\* part_005, lines 7-8
BRIDGE_REQUEST_SOURCE == "CS2DV_VIEWER"
BRIDGE_RESPONSE_SOURCE == "CS2DV_EXTENSION"
\* the message types postBridgeRequest is called with
BridgeMessageTypes == {"PING", "FETCH_BEGIN"}
\* event.source of a message event: the page's own window, or another one
EventSources == {"window", "frame"}
\* data.source of a message
DataSources == {BRIDGE_REQUEST_SOURCE, BRIDGE_RESPONSE_SOURCE}
\* data.response of a message: missing, with ok false, with ok true
DataResponses == {"missing", "failed", "ok"}
NoMessage == [eventSource |-> "", source |-> "", replyTo |-> <<>>, response |-> ""]
\* the id that stands for a nil player of an event
NoPlayer == 0
Weapons == {"AK-47"}
\* the participants of the kill events: killer, victim and assister, each
\* possibly absent
Killers == {NoPlayer, 1}
Victims == {NoPlayer, 1, 3}
Assisters == {NoPlayer, 3}
\* the players of the blind events: one of CT, one of neither team, one of T
Blinded == {1, 2, 3}

\* Display names, as ranks in the string order: players 1 and 2 share a
\* name, the other names are distinct and descend with the id.
Name == [p \in Players |-> IF p = 1 THEN NumPlayers - 1 ELSE NumPlayers + 1 - p]

VARIABLES
    \* state of ParseDemo
    frames, rounds, killEvents,
    ctScore, tScore, baseCTScore, baseTScore, matchStartTick, matchStarted,
    playerStats, rosterMap, rosterBuilt,
    activeEffects, effectIDCounter, isBombPlanted, currentFires,
    currentTickFlashIDs, currentTickCount,
    pc, result,
    \* game state of the decoder
    ingameTick, gsCTScore, gsTScore, isMatchStarted, team,
    \* the event most recently dispatched ("Env": the decoder changed its
    \* game state since)
    event,
    \* state of the extension's background worker: the archive cache, the
    \* ids crypto.randomUUID has given out, the archive downloads in flight,
    \* the response most recently sent, the network fetch issued by the
    \* message most recently handled, and Date.now()
    archiveCache, uuidCounter, pending, response, fetchIssued, now,
    \* state of the viewer's fetchArchiveViaExtension
    viewerPc, viewerRequestId, viewerSize, viewerOffset, viewerEndSent,
    \* state of the viewer page's postBridgeRequest: the counter of request
    \* ids, the promises of the calls made so far in call order, and the
    \* message event most recently dispatched on the window
    bridgeRequestSeq, promises, lastMessage

progVars == <<frames, rounds, killEvents, ctScore, tScore, baseCTScore,
              baseTScore, matchStartTick, matchStarted, playerStats, rosterMap,
              rosterBuilt, activeEffects, effectIDCounter, isBombPlanted,
              currentFires, currentTickFlashIDs, currentTickCount, pc, result>>
gsVars == <<ingameTick, gsCTScore, gsTScore, isMatchStarted, team>>
workerVars == <<archiveCache, uuidCounter, pending, response, fetchIssued>>
viewerVars == <<viewerPc, viewerRequestId, viewerSize, viewerOffset, viewerEndSent>>
pageVars == <<bridgeRequestSeq, promises, lastMessage>>
bridgeVars == <<workerVars, now, viewerVars, pageVars>>
vars == <<progVars, gsVars, event, bridgeVars>>

(***************************************************************************)
(* Helpers                                                                 *)
(***************************************************************************)
ZeroStats == [kills |-> 0, deaths |-> 0, assists |-> 0, hs |-> 0]

\* Variant: a zeroed entry is stored at every call
getStats_Fresh(ps, id) == (id :> ZeroStats) @@ ps
\* getStats: the entry of id, created zeroed when missing
getStats(ps, id) == IF id \in DOMAIN ps THEN ps ELSE (id :> ZeroStats) @@ ps

\* rosterMap[id] of a Go map: the zero value when the key is missing
RosterIndex(rm, id) == IF id \in DOMAIN rm THEN rm[id] ELSE 0

\* gs.Participants().Playing(): the participants on CT or T
Playing(tm) == {p \in Players : tm[p] \in {"CT", "T"}}

TeamMembers(tm, t) == {p \in Playing(tm) : tm[p] = t}

\* The sequence of the members of S in ascending id order
RECURSIVE SeqOf(_)
SeqOf(S) ==
    IF S = {} THEN <<>>
    ELSE LET m == CHOOSE x \in S : \A y \in S : x <= y
         IN <<m>> \o SeqOf(S \ {m})

\* Variant: the participants are taken in list order, unsorted
SortedByName_ById(S) == {SeqOf(S)}
\* sort.Slice by name: any permutation of S ordered by name (sort.Slice
\* does not promise an order among equal names)
RECURSIVE SortedByName(_)
SortedByName(S) ==
    IF S = {} THEN {<<>>}
    ELSE UNION {{<<m>> \o t : t \in SortedByName(S \ {m})} :
                    m \in {p \in S : \A q \in S : ~(Name[q] < Name[p])}}

\* Variant: zero-based CT slots
CTSlot_ZeroBased(i) == i - 1
CTSlot(i) == i
TSlot(i) == 5 + i

\* the two assignment loops: CT players first, then T players
AssignRoster(rm, ctPlayers, tPlayers) ==
    LET afterCT == [p \in DOMAIN rm \cup {ctPlayers[i] : i \in DOMAIN ctPlayers} |->
                       IF \E i \in DOMAIN ctPlayers : ctPlayers[i] = p
                       THEN CTSlot(CHOOSE i \in DOMAIN ctPlayers : ctPlayers[i] = p)
                       ELSE rm[p]]
    IN [p \in DOMAIN afterCT \cup {tPlayers[i] : i \in DOMAIN tPlayers} |->
            IF \E i \in DOMAIN tPlayers : tPlayers[i] = p
            THEN TSlot(CHOOSE i \in DOMAIN tPlayers : tPlayers[i] = p)
            ELSE afterCT[p]]

\* Variant: every round start is handled
RoundGate_Open(live) == TRUE
\* line 360: a round start is handled only while the decoder reports the
\* match as started
RoundGate(live) == live

\* Variant: every accepted round start confirms the match again
ConfirmGate_Always(started) == TRUE
\* line 364: the match start is confirmed once
ConfirmGate(started) == ~started

\* Variant: round ends accumulate scores before the match start
ScoreGate_Always(started) == TRUE
\* line 164: scores are taken only after the match start
ScoreGate(started) == started

\* line 375: the roster is built once
RosterGate(built) == ~built

\* Variant: a new record starts from the decoder's current team scores
NewRound_RawScores(n, tick) ==
    [number |-> n, tick |-> tick, ct_score |-> gsCTScore, t_score |-> gsTScore,
     winning_team |-> "", freeze_time_tick |-> 0]
NewRound(n, tick) ==
    [number |-> n, tick |-> tick, ct_score |-> 0, t_score |-> 0,
     winning_team |-> "", freeze_time_tick |-> 0]

\* Variant: zero-based round numbers
NextRoundNumber_ZeroBased(rs) == Len(rs)
NextRoundNumber(rs) == Len(rs) + 1

\* Variant: the baseline is not subtracted
RelativeScore_Raw(raw, base) == raw
RelativeScore(raw, base) == raw - base

WinnerLabel(w) == IF w = "CT" THEN "CT" ELSE IF w = "T" THEN "T" ELSE ""

Winners == {"CT", "T", "NONE"}

\* Variant: the round end fills the first record
BackfillLast_First(rs, ct, t, label) ==
    IF Len(rs) > 0
    THEN [rs EXCEPT ![1] = [@ EXCEPT !.ct_score = ct, !.t_score = t,
                                     !.winning_team = label]]
    ELSE rs
\* lines 178-182: the round end fills the last record, if there is one
BackfillLast(rs, ct, t, label) ==
    IF Len(rs) > 0
    THEN [rs EXCEPT ![Len(rs)] = [@ EXCEPT !.ct_score = ct, !.t_score = t,
                                           !.winning_team = label]]
    ELSE rs

\* Variant: the freeze-time end is written to every record
SetFreezeTime_AllRounds(rs, tick) ==
    [k \in DOMAIN rs |-> [rs[k] EXCEPT !.freeze_time_tick = tick]]
\* lines 419-421: the freeze-time end is written to the last record, if
\* there is one
SetFreezeTime(rs, tick) ==
    IF Len(rs) > 0
    THEN [rs EXCEPT ![Len(rs)].freeze_time_tick = tick]
    ELSE rs

NewEffect(id, eid, type, start, dur) ==
    [id |-> id, entity_id |-> eid, type |-> type, start_tick |-> start,
     end_tick |-> start + dur, flashed_ct |-> 0, flashed_t |-> 0]

\* Variant: every effect that has started is visible
IsVisible_FromStart(tick, eff) == eff.start_tick <= tick
IsVisible(tick, eff) == tick <= eff.end_tick

\* Variant: the cadence is tested on the count before the increment
EmitsFrame_BeforeIncrement(count) == (count - 1) % tickSkip = 0
EmitsFrame(count) == count % tickSkip = 0

\* Variant: the per-window list survives the emission
AfterEmission_Keep(fires) == fires
\* line 538: the per-window list after an emission
AfterEmission(fires) == <<>>

TeamName(t) == IF t = "T" THEN "T" ELSE IF t = "CT" THEN "CT" ELSE "SPECTATOR"

(***************************************************************************)
(* Initial state: ParseDemo before ParseToEnd                              *)
(***************************************************************************)
InitProg ==
    /\ frames = <<>> /\ rounds = <<>> /\ killEvents = <<>>
    /\ ctScore = 0 /\ tScore = 0 /\ baseCTScore = 0 /\ baseTScore = 0
    /\ matchStartTick = -1 /\ matchStarted = FALSE
    /\ playerStats = <<>> /\ rosterMap = <<>> /\ rosterBuilt = FALSE
    /\ activeEffects = <<>> /\ effectIDCounter = 0 /\ isBombPlanted = FALSE
    /\ currentFires = <<>> /\ currentTickFlashIDs = <<>>
    /\ currentTickCount = 0
    /\ pc = "parsing" /\ result = NoDoc
    /\ event = "Env"

\* The extension worker and the viewer before any message
InitBridge ==
    /\ archiveCache = <<>> /\ uuidCounter = 0 /\ pending = {}
    /\ response = NoResponse /\ fetchIssued = NoFetch
    /\ now = 0
    /\ viewerPc = "idle" /\ viewerRequestId = NoRequest
    /\ viewerSize = 0 /\ viewerOffset = 0 /\ viewerEndSent = FALSE
    /\ bridgeRequestSeq = 0 /\ promises = <<>> /\ lastMessage = NoMessage

DefaultTeam == [p \in Players |-> IF p = 1 THEN "CT" ELSE IF p = 3 THEN "T" ELSE "SPEC"]

Init ==
    /\ InitProg
    /\ InitBridge
    /\ ingameTick = 0 /\ gsCTScore \in 0..1 /\ gsTScore = 0
    /\ isMatchStarted = FALSE
    /\ team = DefaultTeam

(***************************************************************************)
(* Event handlers                                                          *)
(***************************************************************************)

\* The roster build of the RoundStart handler
BuildRoster ==
    IF RosterGate(rosterBuilt)
    THEN /\ \E ctPlayers \in SortedByName(TeamMembers(team, "CT")),
               tPlayers \in SortedByName(TeamMembers(team, "T")) :
                rosterMap' = AssignRoster(rosterMap, ctPlayers, tPlayers)
         /\ rosterBuilt' = TRUE
    ELSE UNCHANGED <<rosterMap, rosterBuilt>>

\* Variant: the roster is rebuilt at every accepted round start
ConfirmMatchStart_Rebuild ==
    /\ IF ConfirmGate(matchStarted)
       THEN /\ matchStarted' = TRUE
            /\ matchStartTick' = ingameTick
            /\ baseCTScore' = gsCTScore
            /\ baseTScore' = gsTScore
            /\ ctScore' = 0
            /\ tScore' = 0
       ELSE UNCHANGED <<matchStarted, matchStartTick, baseCTScore, baseTScore,
                        ctScore, tScore>>
    /\ \E ctPlayers \in SortedByName(TeamMembers(team, "CT")),
          tPlayers \in SortedByName(TeamMembers(team, "T")) :
           rosterMap' = AssignRoster(rosterMap, ctPlayers, tPlayers)
    /\ rosterBuilt' = TRUE
\* The match-start confirmation of the RoundStart handler
ConfirmMatchStart ==
    IF ConfirmGate(matchStarted)
    THEN /\ matchStarted' = TRUE
         /\ matchStartTick' = ingameTick
         /\ baseCTScore' = gsCTScore
         /\ baseTScore' = gsTScore
         /\ ctScore' = 0
         /\ tScore' = 0
         /\ BuildRoster
    ELSE UNCHANGED <<matchStarted, matchStartTick, baseCTScore, baseTScore,
                     ctScore, tScore, rosterMap, rosterBuilt>>

\* Variant: an accepted round start keeps the active effects
RoundStartEffects_Keep(effs) == effs
\* line 413: the active list after an accepted round start
RoundStartEffects(effs) == <<>>

\* events.RoundStart
RoundStart ==
    /\ pc = "parsing"
    /\ event' = "RoundStart"
    /\ UNCHANGED bridgeVars
    /\ IF ~RoundGate(isMatchStarted)
       THEN UNCHANGED progVars
       ELSE /\ ConfirmMatchStart
            /\ rounds' = Append(rounds, NewRound(NextRoundNumber(rounds), ingameTick))
            /\ activeEffects' = RoundStartEffects(activeEffects)
            /\ isBombPlanted' = FALSE
            /\ UNCHANGED <<frames, killEvents, playerStats, effectIDCounter,
                           currentFires, currentTickFlashIDs, currentTickCount,
                           pc, result>>
    /\ UNCHANGED gsVars

\* events.RoundEnd with e.Winner = winner
RoundEnd(winner) ==
    /\ pc = "parsing"
    /\ event' = "RoundEnd"
    /\ UNCHANGED bridgeVars
    /\ LET ct == IF ScoreGate(matchStarted)
                 THEN RelativeScore(gsCTScore, baseCTScore) ELSE ctScore
           t  == IF ScoreGate(matchStarted)
                 THEN RelativeScore(gsTScore, baseTScore) ELSE tScore
       IN /\ ctScore' = ct
          /\ tScore' = t
          /\ rounds' = BackfillLast(rounds, ct, t, WinnerLabel(winner))
    /\ UNCHANGED <<frames, killEvents, baseCTScore, baseTScore, matchStartTick,
                   matchStarted, playerStats, rosterMap, rosterBuilt,
                   activeEffects, effectIDCounter, isBombPlanted, currentFires,
                   currentTickFlashIDs, currentTickCount, pc, result>>
    /\ UNCHANGED gsVars

\* events.RoundFreezetimeEnd
RoundFreezetimeEnd ==
    /\ pc = "parsing"
    /\ event' = "RoundFreezetimeEnd"
    /\ UNCHANGED bridgeVars
    /\ rounds' = SetFreezeTime(rounds, ingameTick)
    /\ UNCHANGED <<frames, killEvents, ctScore, tScore, baseCTScore, baseTScore,
                   matchStartTick, matchStarted, playerStats, rosterMap,
                   rosterBuilt, activeEffects, effectIDCounter, isBombPlanted,
                   currentFires, currentTickFlashIDs, currentTickCount, pc,
                   result>>
    /\ UNCHANGED gsVars

\* The common part of SmokeStart, FireGrenadeStart, FlashExplode, HeExplode
\* Variant: the id is the position in the active list
OpenEffect_ByLength(eid, type, dur) ==
    /\ effectIDCounter' = effectIDCounter + 1
    /\ activeEffects' = Append(activeEffects,
                               NewEffect(Len(activeEffects) + 1, eid, type, ingameTick, dur))
\* The common part of the four effect-open handlers: lines 256/287/317/332
\* increment effectIDCounter, the append uses the incremented value as ID
OpenEffect(eid, type, dur) ==
    /\ effectIDCounter' = effectIDCounter + 1
    /\ activeEffects' = Append(activeEffects,
                               NewEffect(effectIDCounter + 1, eid, type, ingameTick, dur))

effectFrame == <<frames, rounds, killEvents, ctScore, tScore, baseCTScore,
                 baseTScore, matchStartTick, matchStarted, playerStats,
                 rosterMap, rosterBuilt, isBombPlanted, currentFires,
                 currentTickCount, pc, result>>

\* events.SmokeStart; eid = -1 when the event carries no grenade entity
SmokeStart(eid) ==
    /\ pc = "parsing"
    /\ event' = "SmokeStart"
    /\ UNCHANGED bridgeVars
    /\ OpenEffect(eid, "SMOKE", smokeDurationTicks)
    /\ UNCHANGED currentTickFlashIDs
    /\ UNCHANGED effectFrame
    /\ UNCHANGED gsVars

\* events.FireGrenadeStart
FireGrenadeStart(eid) ==
    /\ pc = "parsing"
    /\ event' = "FireGrenadeStart"
    /\ UNCHANGED bridgeVars
    /\ OpenEffect(eid, "MOLOTOV", molotovDurationTicks)
    /\ UNCHANGED currentTickFlashIDs
    /\ UNCHANGED effectFrame
    /\ UNCHANGED gsVars

\* events.FlashExplode (EntityID keeps its zero value)
FlashExplode ==
    /\ pc = "parsing"
    /\ event' = "FlashExplode"
    /\ UNCHANGED bridgeVars
    /\ OpenEffect(0, "FLASH", flashDurationTicks)
    /\ currentTickFlashIDs' = Append(currentTickFlashIDs, effectIDCounter + 1)
    /\ UNCHANGED effectFrame
    /\ UNCHANGED gsVars

\* events.HeExplode
HeExplode ==
    /\ pc = "parsing"
    /\ event' = "HeExplode"
    /\ UNCHANGED bridgeVars
    /\ OpenEffect(0, "HE", heDurationTicks)
    /\ UNCHANGED currentTickFlashIDs
    /\ UNCHANGED effectFrame
    /\ UNCHANGED gsVars

\* The loop of SmokeExpired / FireGrenadeExpired: every active record of the
\* entity and kind ends at the current tick
ExpireEarly(effs, eid, type, tick) ==
    [i \in DOMAIN effs |->
        IF effs[i].entity_id = eid /\ effs[i].type = type
        THEN [effs[i] EXCEPT !.end_tick = tick]
        ELSE effs[i]]

\* events.SmokeExpired; eid = -1 when the event carries no grenade entity
SmokeExpired(eid) ==
    /\ pc = "parsing"
    /\ event' = "SmokeExpired"
    /\ UNCHANGED bridgeVars
    /\ activeEffects' = IF eid # -1
                        THEN ExpireEarly(activeEffects, eid, "SMOKE", ingameTick)
                        ELSE activeEffects
    /\ UNCHANGED <<effectIDCounter, currentTickFlashIDs>>
    /\ UNCHANGED effectFrame
    /\ UNCHANGED gsVars

\* events.FireGrenadeExpired
FireGrenadeExpired(eid) ==
    /\ pc = "parsing"
    /\ event' = "FireGrenadeExpired"
    /\ UNCHANGED bridgeVars
    /\ activeEffects' = IF eid # -1
                        THEN ExpireEarly(activeEffects, eid, "MOLOTOV", ingameTick)
                        ELSE activeEffects
    /\ UNCHANGED <<effectIDCounter, currentTickFlashIDs>>
    /\ UNCHANGED effectFrame
    /\ UNCHANGED gsVars

\* Variant: the flag stays set when the bomb explodes
BombFlag_UntilDefused(kind) == kind # "BombDefused"
\* lines 345-355: the value the bomb handlers give isBombPlanted
BombFlag(kind) == kind = "BombPlanted"

\* events.BombPlanted, events.BombDefused, events.BombExplode
BombEvent(kind) ==
    /\ pc = "parsing"
    /\ event' = kind
    /\ UNCHANGED bridgeVars
    /\ isBombPlanted' = BombFlag(kind)
    /\ UNCHANGED <<frames, rounds, killEvents, ctScore, tScore, baseCTScore,
                   baseTScore, matchStartTick, matchStarted, playerStats,
                   rosterMap, rosterBuilt, activeEffects, effectIDCounter,
                   currentFires, currentTickFlashIDs, currentTickCount, pc,
                   result>>
    /\ UNCHANGED gsVars
BombPlanted == BombEvent("BombPlanted")
BombDefused == BombEvent("BombDefused")
BombExplode == BombEvent("BombExplode")

\* Variant: a blind event is credited to every active flash
Attribute_AllFlashes(effs, ids, tm) ==
    [i \in DOMAIN effs |->
        IF effs[i].type # "FLASH" THEN effs[i]
        ELSE IF tm = "CT" THEN [effs[i] EXCEPT !.flashed_ct = @ + 1]
        ELSE IF tm = "T" THEN [effs[i] EXCEPT !.flashed_t = @ + 1]
        ELSE effs[i]]
\* getStats(id).<field>++
Bump(ps, id, field) == [getStats(ps, id) EXCEPT ![id][field] = @ + 1]

\* Variant: the victim's death is counted only when there is no killer
KillStats_VictimElse(ps, killer, victim, assister, headshot) ==
    LET afterKiller == IF killer # NoPlayer
                       THEN IF headshot
                            THEN Bump(Bump(ps, killer, "kills"), killer, "hs")
                            ELSE Bump(ps, killer, "kills")
                       ELSE IF victim # NoPlayer
                            THEN Bump(ps, victim, "deaths")
                            ELSE ps
    IN IF assister # NoPlayer
       THEN Bump(afterKiller, assister, "assists")
       ELSE afterKiller
\* lines 186-198: the counter updates of the Kill handler
KillStats(ps, killer, victim, assister, headshot) ==
    LET afterKiller == IF killer # NoPlayer
                       THEN IF headshot
                            THEN Bump(Bump(ps, killer, "kills"), killer, "hs")
                            ELSE Bump(ps, killer, "kills")
                       ELSE ps
        afterVictim == IF victim # NoPlayer
                       THEN Bump(afterKiller, victim, "deaths")
                       ELSE afterKiller
    IN IF assister # NoPlayer
       THEN Bump(afterVictim, assister, "assists")
       ELSE afterVictim

\* lines 200-215: the log record of a kill; the ids keep their zero value
\* when the participant is absent
NewKill(tick, killer, victim, assister, headshot, weapon) ==
    [tick |-> tick,
     killer_id |-> IF killer # NoPlayer THEN killer ELSE 0,
     victim_id |-> IF victim # NoPlayer THEN victim ELSE 0,
     assister_id |-> IF assister # NoPlayer THEN assister ELSE 0,
     is_headshot |-> headshot, weapon |-> weapon]

\* Variant: the newest record is put in front
AppendKill_Front(log, ke) == <<ke>> \o log
\* line 216
AppendKill(log, ke) == Append(log, ke)

\* events.Kill; a participant is NoPlayer when the event's pointer is nil
Kill(killer, victim, assister, headshot, weapon) ==
    /\ pc = "parsing"
    /\ event' = "Kill"
    /\ UNCHANGED bridgeVars
    /\ playerStats' = KillStats(playerStats, killer, victim, assister, headshot)
    /\ killEvents' = AppendKill(killEvents,
                         NewKill(ingameTick, killer, victim, assister, headshot, weapon))
    /\ UNCHANGED <<frames, rounds, ctScore, tScore, baseCTScore, baseTScore,
                   matchStartTick, matchStarted, rosterMap, rosterBuilt,
                   activeEffects, effectIDCounter, isBombPlanted, currentFires,
                   currentTickFlashIDs, currentTickCount, pc, result>>
    /\ UNCHANGED gsVars

\* events.WeaponFire; shooter = NoPlayer when e.Shooter is nil
WeaponFire(shooter, weapon) ==
    /\ pc = "parsing"
    /\ event' = "WeaponFire"
    /\ UNCHANGED bridgeVars
    /\ currentFires' = IF shooter # NoPlayer
                       THEN Append(currentFires,
                                   [player_id |-> shooter, weapon |-> weapon])
                       ELSE currentFires
    /\ UNCHANGED <<frames, rounds, killEvents, ctScore, tScore, baseCTScore,
                   baseTScore, matchStartTick, matchStarted, playerStats,
                   rosterMap, rosterBuilt, activeEffects, effectIDCounter,
                   isBombPlanted, currentTickFlashIDs, currentTickCount, pc,
                   result>>
    /\ UNCHANGED gsVars

\* The loops of PlayerFlashed: one increment per pending flash id that
\* equals the id of the record
Attribute(effs, ids, tm) ==
    [i \in DOMAIN effs |->
        LET n == Cardinality({k \in DOMAIN ids : ids[k] = effs[i].id})
        IN IF tm = "CT" THEN [effs[i] EXCEPT !.flashed_ct = @ + n]
           ELSE IF tm = "T" THEN [effs[i] EXCEPT !.flashed_t = @ + n]
           ELSE effs[i]]

\* events.PlayerFlashed for player p
PlayerFlashed(p) ==
    /\ pc = "parsing"
    /\ event' = "PlayerFlashed"
    /\ UNCHANGED bridgeVars
    /\ activeEffects' = Attribute(activeEffects, currentTickFlashIDs, team[p])
    /\ UNCHANGED <<effectIDCounter, currentTickFlashIDs>>
    /\ UNCHANGED effectFrame
    /\ UNCHANGED gsVars

\* The grenade filter of FrameDone
VisibleEffects(effs, tick) ==
    LET Test(e) == IsVisible(tick, e) IN SelectSeq(effs, Test)

\* Variant: expired records are hidden from the frame but stay in the list
RemainingEffects_Keep(effs, tick) == effs
\* The records FrameDone keeps in the active list
RemainingEffects(effs, tick) ==
    LET Test(e) == IsVisible(tick, e) IN SelectSeq(effs, Test)

\* The stats map after getStats ran for every playing participant
RECURSIVE TouchStats(_, _)
TouchStats(ps, S) ==
    IF S = {} THEN ps
    ELSE LET m == CHOOSE x \in S : TRUE IN TouchStats(getStats(ps, m), S \ {m})

\* Variant: the headshot count is read from the kill counter
PlayerData_HsFromKills(p, tm, ps, rm) ==
    [id |-> p, team |-> TeamName(tm[p]),
     kills |-> getStats(ps, p)[p].kills, deaths |-> getStats(ps, p)[p].deaths,
     assists |-> getStats(ps, p)[p].assists, hs |-> getStats(ps, p)[p].kills,
     roster_index |-> RosterIndex(rm, p)]
\* lines 467-489: the frame entry of participant p
PlayerData(p, tm, ps, rm) ==
    [id |-> p, team |-> TeamName(tm[p]),
     kills |-> getStats(ps, p)[p].kills, deaths |-> getStats(ps, p)[p].deaths,
     assists |-> getStats(ps, p)[p].assists, hs |-> getStats(ps, p)[p].hs,
     roster_index |-> RosterIndex(rm, p)]

\* Variant: the pending flash ids survive the emission
AfterEmissionFlashIDs_Keep(ids) == ids
\* line 539: the pending flash ids after an emission
AfterEmissionFlashIDs(ids) == <<>>

\* events.FrameDone
FrameDone ==
    /\ pc = "parsing"
    /\ event' = "FrameDone"
    /\ UNCHANGED bridgeVars
    /\ currentTickCount' = currentTickCount + 1
    /\ IF ~EmitsFrame(currentTickCount + 1)
       THEN UNCHANGED <<frames, playerStats, activeEffects, currentFires,
                        currentTickFlashIDs>>
       ELSE LET playing == SeqOf(Playing(team))
                visibleGrenades == VisibleEffects(activeEffects, ingameTick)
            IN /\ playerStats' = TouchStats(playerStats, Playing(team))
               /\ activeEffects' = RemainingEffects(activeEffects, ingameTick)
               /\ frames' = Append(frames,
                     [tick |-> ingameTick,
                      players |-> [i \in DOMAIN playing |->
                                      PlayerData(playing[i], team, playerStats, rosterMap)],
                      grenades |-> visibleGrenades,
                      fires |-> currentFires,
                      bomb |-> [is_planted |-> isBombPlanted]])
               /\ currentFires' = AfterEmission(currentFires)
               /\ currentTickFlashIDs' = AfterEmissionFlashIDs(currentTickFlashIDs)
    /\ UNCHANGED <<rounds, killEvents, ctScore, tScore, baseCTScore, baseTScore,
                   matchStartTick, matchStarted, rosterMap, rosterBuilt,
                   effectIDCounter, isBombPlanted, pc, result>>
    /\ UNCHANGED gsVars

\* Variant: a zero tick rate is kept
ResolveTickRate_NegativeOnly(tr) == IF tr < 0 THEN DefaultTickRate ELSE tr
ResolveTickRate(tr) == IF tr <= 0 THEN DefaultTickRate ELSE tr

\* Variant: a truncated stream is fatal
Tolerated_OnlyNil(err) == err = "nil"
\* line 543: the results of ParseToEnd after which the document is built
Tolerated(err) == err \in {"nil", "ErrUnexpectedEndOfDemo"}

\* how the stream ended: normally ("End") or with the decoder's error
EndEvent(err) == IF err = "nil" THEN "End" ELSE err

\* The end of ParseDemo: ParseToEnd returned err, the decoder reports tick
\* rate tr, and json.Marshal succeeds iff marshals
Export(err, tr, marshals) ==
    /\ pc = "parsing"
    /\ event' = EndEvent(err)
    /\ UNCHANGED bridgeVars
    /\ pc' = "done"
    /\ result' = IF ~Tolerated(err) \/ ~marshals
                 THEN NoDoc
                 ELSE [ok |-> TRUE,
                       tick_rate |-> [num |-> ResolveTickRate(tr), den |-> tickSkip],
                       original_tick_rate |-> ResolveTickRate(tr),
                       frames |-> frames, rounds |-> rounds, kills |-> killEvents,
                       ct_score |-> ctScore, t_score |-> tScore,
                       match_start_tick |-> matchStartTick]
    /\ UNCHANGED <<frames, rounds, killEvents, ctScore, tScore, baseCTScore,
                   baseTScore, matchStartTick, matchStarted, playerStats,
                   rosterMap, rosterBuilt, activeEffects, effectIDCounter,
                   isBombPlanted, currentFires, currentTickFlashIDs,
                   currentTickCount>>
    /\ UNCHANGED gsVars

\* The end of ParseDemo with a document that serializes
Finalize(err, tr) == Export(err, tr, TRUE)

(***************************************************************************)
(* The decoder's game state                                                *)
(***************************************************************************)

\* the ingame tick advances by d
AdvanceTick(d) ==
    /\ pc = "parsing"
    /\ ingameTick' = ingameTick + d
    /\ event' = "Env"
    /\ UNCHANGED bridgeVars
    /\ UNCHANGED <<gsCTScore, gsTScore, isMatchStarted, team>>
    /\ UNCHANGED progVars

\* the team scores change
ScoreChange(ct, t) ==
    /\ pc = "parsing"
    /\ <<ct, t>> # <<gsCTScore, gsTScore>>
    /\ gsCTScore' = ct
    /\ gsTScore' = t
    /\ event' = "Env"
    /\ UNCHANGED bridgeVars
    /\ UNCHANGED <<ingameTick, isMatchStarted, team>>
    /\ UNCHANGED progVars

\* the score of one side grows by one
ScoreGain(side) ==
    /\ pc = "parsing"
    /\ gsCTScore' = IF side = "CT" THEN gsCTScore + 1 ELSE gsCTScore
    /\ gsTScore' = IF side = "T" THEN gsTScore + 1 ELSE gsTScore
    /\ event' = "Env"
    /\ UNCHANGED bridgeVars
    /\ UNCHANGED <<ingameTick, isMatchStarted, team>>
    /\ UNCHANGED progVars

\* gs.IsMatchStarted() changes
MatchStartedChange ==
    /\ pc = "parsing"
    /\ isMatchStarted' = ~isMatchStarted
    /\ event' = "Env"
    /\ UNCHANGED bridgeVars
    /\ UNCHANGED <<ingameTick, gsCTScore, gsTScore, team>>
    /\ UNCHANGED progVars

\* participant p joins, leaves or changes team
TeamChange(p, t) ==
    /\ pc = "parsing"
    /\ team[p] # t
    /\ team' = [team EXCEPT ![p] = t]
    /\ event' = "Env"
    /\ UNCHANGED bridgeVars
    /\ UNCHANGED <<ingameTick, gsCTScore, gsTScore, isMatchStarted>>
    /\ UNCHANGED progVars

(***************************************************************************)
(* The extension's background worker (background.js) and the viewer's      *)
(* fetchArchiveViaExtension                                                *)
(***************************************************************************)

\* Variant: entries are never dropped for their age
cleanupArchiveCache_Never(cache, t) == cache
\* lines 6-13: the cache without the entries older than CACHE_TTL_MS at t
cleanupArchiveCache(cache, t) ==
    LET keep == {k \in DOMAIN cache : ~(t - cache[k].createdAt > CACHE_TTL_MS)}
    IN [k \in keep |-> cache[k]]

\* Variant: every url the constructor parses is accepted
ensureHttpUrl_AnyProtocol(value) ==
    IF UrlProtocol(value) = "" THEN [ok |-> FALSE, error |-> "Invalid URL"]
    ELSE [ok |-> TRUE, url |-> value]
\* lines 15-28: the url, or the error thrown
ensureHttpUrl(value) ==
    IF UrlProtocol(value) = "" THEN [ok |-> FALSE, error |-> "Invalid URL"]
    ELSE IF UrlProtocol(value) # "https:" /\ UrlProtocol(value) # "http:"
         THEN [ok |-> FALSE, error |-> "Unsupported URL protocol"]
         ELSE [ok |-> TRUE, url |-> value]

\* lines 152-154: the response of the catch handler
ErrorResponse(to, type, error) ==
    [to |-> to, type |-> type, ok |-> FALSE, error |-> error]
OkResponse(to, type, body) ==
    [to |-> to, type |-> type, ok |-> TRUE, error |-> "", body |-> body]

\* lines 130-131 of the chunk handler
ChunkStart(offset, length) ==
    LET m == IF offset < length THEN offset ELSE length IN IF m > 0 THEN m ELSE 0
\* Variant: the end is not clamped to the archive length
ChunkEnd_Unclamped(start, length) == start + CHUNK_SIZE
\* line 131
ChunkEnd(start, length) ==
    IF start + CHUNK_SIZE < length THEN start + CHUNK_SIZE ELSE length

\* lines 104-107: a message without a type
InvalidMessage ==
    /\ archiveCache' = cleanupArchiveCache(archiveCache, now)
    /\ response' = ErrorResponse("other", "", "Invalid message")
    /\ fetchIssued' = NoFetch
    /\ UNCHANGED <<uuidCounter, pending, now, viewerVars>>
    /\ UNCHANGED <<progVars, gsVars, event, pageVars>>

\* line 151: a message of a type the worker does not know
UnsupportedMessage ==
    /\ archiveCache' = cleanupArchiveCache(archiveCache, now)
    /\ response' = ErrorResponse("other", "PING", "Unsupported message type")
    /\ fetchIssued' = NoFetch
    /\ UNCHANGED <<uuidCounter, pending, now, viewerVars>>
    /\ UNCHANGED <<progVars, gsVars, event, pageVars>>

\* lines 109-113 with resolveFinalDemoUrl (45-61), a request of the content
\* script: the fetch either answers with a final url or fails, and the
\* validated url is returned then
ResolveDemoUrl(url) ==
    /\ archiveCache' = cleanupArchiveCache(archiveCache, now)
    /\ LET checked == ensureHttpUrl(url)
       IN IF ~checked.ok
          THEN /\ response' = ErrorResponse("other", "RESOLVE_DEMO_URL", checked.error)
               /\ fetchIssued' = NoFetch
          ELSE /\ response' = OkResponse("other", "RESOLVE_DEMO_URL",
                                         [finalUrl |-> checked.url])
               /\ fetchIssued' = checked.url
    /\ UNCHANGED <<uuidCounter, pending, now, viewerVars>>
    /\ UNCHANGED <<progVars, gsVars, event, pageVars>>

\* lines 115-116 with fetchArchive up to its await fetch (63-68); the viewer
\* posts FETCH_BEGIN first thing (part_005, line 137) and throws when the
\* request is rejected
ProxyFetchBegin(to, url) ==
    /\ to = "viewer" => viewerPc = "idle"
    /\ archiveCache' = cleanupArchiveCache(archiveCache, now)
    /\ LET checked == ensureHttpUrl(url)
       IN IF ~checked.ok
          THEN /\ response' = ErrorResponse(to, "PROXY_FETCH_BEGIN", checked.error)
               /\ fetchIssued' = NoFetch
               /\ pending' = pending
               /\ viewerPc' = IF to = "viewer" THEN "thrown" ELSE viewerPc
          ELSE /\ response' = response
               /\ fetchIssued' = checked.url
               /\ pending' = pending \cup {[to |-> to, url |-> checked.url]}
               /\ viewerPc' = IF to = "viewer" THEN "begin" ELSE viewerPc
    /\ UNCHANGED <<uuidCounter, now, viewerRequestId, viewerSize, viewerOffset,
                   viewerEndSent>>
    /\ UNCHANGED <<progVars, gsVars, event, pageVars>>

\* fetchArchive after its await (70-98) with lines 117-118: the download p
\* ended with response.ok = httpOk and size bytes; the viewer, if it still
\* waits for this answer, enters its chunk loop (part_005, 139-146)
CompleteFetch(p, httpOk, size) ==
    /\ p \in pending
    /\ pending' = pending \ {p}
    /\ fetchIssued' = NoFetch
    /\ LET waiting == p.to = "viewer" /\ viewerPc = "begin"
       IN IF ~httpOk
          THEN /\ response' = ErrorResponse(p.to, "PROXY_FETCH_BEGIN", "Download failed")
               /\ UNCHANGED <<archiveCache, uuidCounter>>
               /\ viewerPc' = IF waiting THEN "thrown" ELSE viewerPc
               /\ UNCHANGED <<viewerRequestId, viewerSize, viewerOffset>>
          ELSE LET requestId == uuidCounter + 1
                   entry == [size |-> size, createdAt |-> now]
               IN /\ uuidCounter' = requestId
                  /\ archiveCache' = cleanupArchiveCache(
                         [k \in DOMAIN archiveCache \cup {requestId} |->
                             IF k = requestId THEN entry ELSE archiveCache[k]], now)
                  /\ response' = OkResponse(p.to, "PROXY_FETCH_BEGIN",
                                    [requestId |-> requestId, size |-> size,
                                     chunkSize |-> CHUNK_SIZE, resolvedUrl |-> p.url])
                  /\ IF waiting
                     THEN /\ viewerRequestId' = requestId
                          /\ viewerSize' = size
                          /\ viewerOffset' = 0
                          /\ viewerPc' = IF 0 < size THEN "loop" ELSE "finally"
                     ELSE UNCHANGED <<viewerPc, viewerRequestId, viewerSize,
                                      viewerOffset>>
    /\ UNCHANGED <<now, viewerEndSent>>
    /\ UNCHANGED <<progVars, gsVars, event, pageVars>>

\* lines 121-142; the viewer posts FETCH_CHUNK for its request and offset
\* inside its loop (part_005, 146-161) and leaves the loop for the finally
\* block on a rejection, on an empty chunk or at the end of the archive
ProxyFetchChunk(to, requestId, offset) ==
    /\ to = "viewer" =>
          viewerPc = "loop" /\ requestId = viewerRequestId /\ offset = viewerOffset
    /\ archiveCache' = cleanupArchiveCache(archiveCache, now)
    /\ fetchIssued' = NoFetch
    /\ IF requestId \notin DOMAIN archiveCache'
       THEN /\ response' = ErrorResponse(to, "PROXY_FETCH_CHUNK",
                                         "Archive request not found or expired")
            /\ viewerPc' = IF to = "viewer" THEN "finally_err" ELSE viewerPc
            /\ viewerOffset' = viewerOffset
       ELSE LET length == archiveCache'[requestId].size
                start == ChunkStart(offset, length)
                end == ChunkEnd(start, length)
            IN /\ response' = OkResponse(to, "PROXY_FETCH_CHUNK",
                                 [offset |-> start, nextOffset |-> end,
                                  done |-> end >= length])
               /\ IF to # "viewer"
                  THEN UNCHANGED <<viewerPc, viewerOffset>>
                  ELSE IF end - start = 0
                  THEN /\ viewerPc' = "finally"
                       /\ viewerOffset' = viewerOffset
                  ELSE /\ viewerOffset' = viewerOffset + (end - start)
                       /\ viewerPc' = IF viewerOffset' < viewerSize
                                      THEN "loop" ELSE "finally"
    /\ UNCHANGED <<uuidCounter, pending, now, viewerRequestId, viewerSize,
                   viewerEndSent>>
    /\ UNCHANGED <<progVars, gsVars, event, pageVars>>

\* part_005, 168-172: what fetchArchiveViaExtension does after its finally
\* block
AfterFinally ==
    IF viewerPc = "finally" /\ viewerOffset = viewerSize
    THEN "returned" ELSE "thrown"

\* lines 144-149; the viewer posts FETCH_END for its request in its finally
\* block (part_005, 162-166)
ProxyFetchEnd(to, requestId) ==
    /\ to = "viewer" =>
          viewerPc \in {"finally", "finally_err"} /\ requestId = viewerRequestId
    /\ LET cleaned == cleanupArchiveCache(archiveCache, now)
       IN archiveCache' = [k \in DOMAIN cleaned \ {requestId} |-> cleaned[k]]
    /\ fetchIssued' = NoFetch
    /\ response' = OkResponse(to, "PROXY_FETCH_END", <<>>)
    /\ IF to = "viewer"
       THEN /\ viewerEndSent' = TRUE
            /\ viewerPc' = AfterFinally
       ELSE UNCHANGED <<viewerPc, viewerEndSent>>
    /\ UNCHANGED <<uuidCounter, pending, now, viewerRequestId, viewerSize,
                   viewerOffset>>
    /\ UNCHANGED <<progVars, gsVars, event, pageVars>>

\* postBridgeRequest (part_005, 12-60) rejects after its timeout: the
\* viewer's request was posted and no answer came in time
BridgeTimeout ==
    /\ viewerPc \in {"begin", "loop", "finally", "finally_err"}
    /\ viewerPc' = CASE viewerPc = "begin" -> "thrown"
                     [] viewerPc = "loop" -> "finally_err"
                     [] OTHER -> AfterFinally
    /\ viewerEndSent' = IF viewerPc \in {"finally", "finally_err"}
                        THEN TRUE ELSE viewerEndSent
    /\ UNCHANGED <<workerVars, now, viewerRequestId, viewerSize, viewerOffset>>
    /\ UNCHANGED <<progVars, gsVars, event, pageVars>>

\* Date.now() advances by d
ClockAdvance(d) ==
    /\ now' = now + d
    /\ UNCHANGED <<workerVars, viewerVars>>
    /\ UNCHANGED <<progVars, gsVars, event, pageVars>>

(***************************************************************************)
(* The viewer page's postBridgeRequest (part_005, lines 10-61)             *)
(***************************************************************************)

\* Variant: the request id is made of the time alone
BridgeRequestId_NoSeq(t, seq) == <<t>>
\* line 17: the request id `cs2dv-${Date.now()}-${bridgeRequestSeq++}`, as
\* the pair of its two numbers
BridgeRequestId(t, seq) == <<t, seq>>

\* the ids a message's replyTo can carry: those of the requests of this
\* millisecond, and one no request was given
ReplyIds == {BridgeRequestId(now, seq) : seq \in 0..PageMaxRequests}

Unsettled == [state |-> "pending", error |-> ""]
Resolved == [state |-> "resolved", error |-> ""]
Rejected(error) == [state |-> "rejected", error |-> error]
\* resolve and reject of a promise: only the first call settles it
Settle(outcome, new) == IF outcome.state = "pending" THEN new ELSE outcome

\* lines 17-60: a call of postBridgeRequest takes its id, arms its timeout
\* and adds its message listener
PostBridgeRequest(messageType) ==
    /\ promises' = Append(promises,
          [requestId |-> BridgeRequestId(now, bridgeRequestSeq),
           messageType |-> messageType,
           timeout |-> TRUE, listening |-> TRUE,
           calls |-> 0, outcome |-> Unsettled])
    /\ bridgeRequestSeq' = bridgeRequestSeq + 1
    /\ UNCHANGED <<lastMessage, workerVars, now, viewerVars>>
    /\ UNCHANGED <<progVars, gsVars, event>>

\* Variant: the timeout leaves the message listener in place
TimeoutSettles_KeepListener(promise) ==
    [promise EXCEPT !.timeout = FALSE,
                    !.calls = @ + 1,
                    !.outcome = Settle(@, Rejected("Extension bridge timeout (" \o promise.messageType \o ")"))]
\* lines 20-23: the timeout callback
TimeoutSettles(promise) ==
    [promise EXCEPT !.timeout = FALSE,
                    !.listening = FALSE,
                    !.calls = @ + 1,
                    !.outcome = Settle(@, Rejected("Extension bridge timeout (" \o promise.messageType \o ")"))]

\* lines 25-47: onMessage of a promise for a message event
onMessage(promise, message) ==
    IF message.eventSource # "window" THEN promise
    ELSE IF message.source # BRIDGE_RESPONSE_SOURCE THEN promise
    ELSE IF message.replyTo # promise.requestId THEN promise
    ELSE [promise EXCEPT
            !.timeout = FALSE,
            !.listening = FALSE,
            !.calls = @ + 1,
            !.outcome = Settle(@,
                IF message.response = "missing"
                THEN Rejected("Invalid extension bridge response")
                ELSE IF message.response = "failed"
                THEN Rejected("Extension bridge request failed")
                ELSE Resolved)]

\* the timeout of the i-th call fires (it was not cleared)
TimeoutFires(i) ==
    /\ promises[i].timeout
    /\ promises' = [promises EXCEPT ![i] = TimeoutSettles(@)]
    /\ UNCHANGED <<bridgeRequestSeq, lastMessage, workerVars, now, viewerVars>>
    /\ UNCHANGED <<progVars, gsVars, event>>

\* a message event is dispatched on the window: every listener still added
\* is called with it
WindowMessage(eventSource, source, replyTo, resp) ==
    LET message == [eventSource |-> eventSource, source |-> source,
                    replyTo |-> replyTo, response |-> resp]
    IN /\ promises' = [i \in DOMAIN promises |->
                          IF promises[i].listening
                          THEN onMessage(promises[i], message)
                          ELSE promises[i]]
       /\ lastMessage' = message
       /\ UNCHANGED <<bridgeRequestSeq, workerVars, now, viewerVars>>
       /\ UNCHANGED <<progVars, gsVars, event>>

(***************************************************************************)
(* Specification of rounds and scores: the decoder dispatches round starts *)
(* and ends, advances the tick, ends the stream; its team scores only grow *)
(***************************************************************************)
Next ==
    \/ ((Len(rounds) < MaxRounds \/ ~isMatchStarted) /\ RoundStart)
    \/ \E w \in Winners : RoundEnd(w)
    \/ \E err \in Errors : Finalize(err, DefaultTickRate)
    \/ (ingameTick < MaxTick /\ AdvanceTick(1))
    \/ (gsCTScore < MaxScore /\ ScoreGain("CT"))
    \/ (gsTScore < MaxScore /\ ScoreGain("T"))
    \/ MatchStartedChange

Spec == Init /\ [][Next]_vars

(***************************************************************************)
(* Specification of the scores under a decoder whose team scores change    *)
(* to any value (restarts, side swaps)                                     *)
(***************************************************************************)
NextScores ==
    \/ ((Len(rounds) < ScoresMaxRounds \/ ~isMatchStarted) /\ RoundStart)
    \/ \E w \in Winners : RoundEnd(w)
    \/ \E err \in Errors : Finalize(err, DefaultTickRate)
    \/ \E ct \in 0..MaxScore, t \in 0..MaxScore : ScoreChange(ct, t)
    \/ MatchStartedChange

SpecScores == Init /\ [][NextScores]_vars

(***************************************************************************)
(* Specification of the roster build: any partition of the participants    *)
(* into CT, T and not playing, then round starts                           *)
(***************************************************************************)
InitBuild ==
    /\ InitProg
    /\ InitBridge
    /\ ingameTick = 0 /\ gsCTScore = 0 /\ gsTScore = 0
    /\ isMatchStarted = FALSE
    /\ team \in [Players -> Teams]

NextBuild ==
    \/ ((Len(rounds) < RosterMaxRounds \/ ~isMatchStarted) /\ RoundStart)
    \/ MatchStartedChange

SpecBuild == InitBuild /\ [][NextBuild]_vars

(***************************************************************************)
(* Specification of the roster over a match: participants join, leave and  *)
(* change team between round starts, round ends and frames                 *)
(***************************************************************************)
InitRoster ==
    /\ InitProg
    /\ InitBridge
    /\ ingameTick = 0 /\ gsCTScore = 0 /\ gsTScore = 0
    /\ isMatchStarted = TRUE
    /\ team = DefaultTeam

NextRoster ==
    \/ ((Len(rounds) < RosterMaxRounds \/ ~isMatchStarted) /\ RoundStart)
    \/ RoundEnd("NONE")
    \/ (currentTickCount < RosterMaxTickCount /\ FrameDone)
    \/ \E p \in 1..RosterMovers, t \in Teams : TeamChange(p, t)

SpecRoster == InitRoster /\ [][NextRoster]_vars

(***************************************************************************)
(* Specification of the effects: smokes and flashes open, smokes expire    *)
(* early, rounds start, frames are emitted; every demo frame ends with     *)
(* FrameDone and the next frame has a later tick                           *)
(***************************************************************************)
InitEffects ==
    /\ InitProg
    /\ InitBridge
    /\ ingameTick = 0 /\ gsCTScore = 0 /\ gsTScore = 0
    /\ isMatchStarted = TRUE
    /\ team = DefaultTeam

NextEffects ==
    \/ /\ event # "FrameDone"
       /\ \/ (effectIDCounter < EffMaxEffects /\ \E eid \in EntityIDs : SmokeStart(eid))
          \/ (effectIDCounter < EffMaxEffects /\ FlashExplode)
          \/ \E eid \in EntityIDs \cup {-1} : SmokeExpired(eid)
          \/ ((Len(rounds) < EffMaxRounds \/ ~isMatchStarted) /\ RoundStart)
          \/ (currentTickCount < EffMaxTickCount /\ FrameDone)
    \/ \E d \in TickSteps : (event = "FrameDone" /\ ingameTick + d <= EffMaxTick /\ AdvanceTick(d))

SpecEffects == InitEffects /\ [][NextEffects]_vars

(***************************************************************************)
(* Specification of the effect durations: effects of the four kinds open,  *)
(* frames are emitted, and the stream ends with any native tick rate the   *)
(* decoder reports                                                         *)
(***************************************************************************)
NextDurations ==
    \/ (effectIDCounter < DurMaxEffects /\ \E eid \in EntityIDs \cup {-1} : SmokeStart(eid))
    \/ (effectIDCounter < DurMaxEffects /\ \E eid \in EntityIDs \cup {-1} : FireGrenadeStart(eid))
    \/ (effectIDCounter < DurMaxEffects /\ FlashExplode)
    \/ (effectIDCounter < DurMaxEffects /\ HeExplode)
    \/ (currentTickCount < DurMaxTickCount /\ FrameDone)
    \/ (ingameTick < DurMaxTick /\ AdvanceTick(1))
    \/ \E err \in Errors, tr \in TickRates : Finalize(err, tr)

SpecDurations == InitEffects /\ [][NextDurations]_vars

(***************************************************************************)
(* Specification of the flash attribution: flashes and smokes open,        *)
(* players of either team and spectators are blinded, rounds start, frames *)
(* are emitted; the tick stands still, so no effect expires                *)
(***************************************************************************)
NextFlash ==
    \/ (effectIDCounter < FlashMaxEffects /\ FlashExplode)
    \/ (effectIDCounter < FlashMaxEffects /\ SmokeStart(-1))
    \/ ((\A i \in DOMAIN activeEffects :
             activeEffects[i].flashed_ct + activeEffects[i].flashed_t < FlashMaxBlinds)
        /\ \E p \in Blinded : PlayerFlashed(p))
    \/ ((Len(rounds) < FlashMaxRounds \/ ~isMatchStarted) /\ RoundStart)
    \/ (currentTickCount < FlashMaxTickCount /\ FrameDone)

SpecFlash == InitEffects /\ [][NextFlash]_vars

(***************************************************************************)
(* Specification of the freeze time: rounds start and end, freeze times    *)
(* end, and the tick advances                                              *)
(***************************************************************************)
NextFreeze ==
    \/ ((Len(rounds) < FreezeMaxRounds \/ ~isMatchStarted) /\ RoundStart)
    \/ RoundFreezetimeEnd
    \/ RoundEnd("CT")
    \/ (ingameTick < FreezeMaxTick /\ AdvanceTick(1))
    \/ MatchStartedChange

SpecFreeze == Init /\ [][NextFreeze]_vars

(***************************************************************************)
(* Specification of the frame cadence and the weapon fires: playing        *)
(* participants (or nobody) fire, frames are emitted every tickSkip raw    *)
(* ticks, a round starts, the stream ends                                  *)
(***************************************************************************)
NextFires ==
    \/ (Len(currentFires) < FireMaxFires
        /\ \E p \in {NoPlayer} \cup Playing(team), w \in Weapons : WeaponFire(p, w))
    \/ (currentTickCount < FireMaxTickCount /\ FrameDone)
    \/ ((Len(rounds) < FireMaxRounds \/ ~isMatchStarted) /\ RoundStart)
    \/ \E err \in Errors : Finalize(err, DefaultTickRate)

SpecFires == InitEffects /\ [][NextFires]_vars

(***************************************************************************)
(* Specification of the kills: kill events with present or absent killer,  *)
(* victim and assister, before and after the match start, a round start,   *)
(* round ends, the end of the stream                                       *)
(***************************************************************************)
NextKills ==
    \/ (Len(killEvents) < KillMaxKills
        /\ \E k \in Killers, v \in Victims, a \in Assisters, hs \in BOOLEAN,
              w \in Weapons : Kill(k, v, a, hs, w))
    \/ ((Len(rounds) < KillMaxRounds \/ ~isMatchStarted) /\ RoundStart)
    \/ RoundEnd("CT")
    \/ \E err \in Errors : Finalize(err, DefaultTickRate)

SpecKills == InitEffects /\ [][NextKills]_vars

(***************************************************************************)
(* Specification of the reported stats: participant 1 kills, with or       *)
(* without an assist, between frames, a round start, round ends and the    *)
(* end of the stream                                                       *)
(***************************************************************************)
NextStats ==
    \/ (Len(killEvents) < StatsMaxKills
        /\ \E v \in Victims \ {NoPlayer}, a \in Assisters, w \in Weapons :
              Kill(1, v, a, TRUE, w))
    \/ (currentTickCount < StatsMaxTickCount /\ FrameDone)
    \/ ((Len(rounds) < StatsMaxRounds \/ ~isMatchStarted) /\ RoundStart)
    \/ RoundEnd("CT")
    \/ \E err \in Errors : Finalize(err, DefaultTickRate)

SpecStats == InitEffects /\ [][NextStats]_vars

(***************************************************************************)
(* Specification of the export: a kill, a round start and frames, then the *)
(* stream ends normally, truncated or with another error, at any reported  *)
(* tick rate, and the document serializes or not                           *)
(***************************************************************************)
NextExport ==
    \/ (Len(killEvents) < ExportMaxKills
        /\ \E w \in Weapons : Kill(1, 3, NoPlayer, TRUE, w))
    \/ ((Len(rounds) < ExportMaxRounds \/ ~isMatchStarted) /\ RoundStart)
    \/ (currentTickCount < ExportMaxTickCount /\ FrameDone)
    \/ \E err \in Errors, tr \in TickRates, marshals \in BOOLEAN :
          Export(err, tr, marshals)

SpecExport == InitEffects /\ [][NextExport]_vars

(***************************************************************************)
(* Specification of the effect ids: effects of the four kinds open, a      *)
(* round start clears the active list, frames are emitted                  *)
(***************************************************************************)
NextIds ==
    \/ (effectIDCounter < IdsMaxEffects /\ SmokeStart(-1))
    \/ (effectIDCounter < IdsMaxEffects /\ FireGrenadeStart(-1))
    \/ (effectIDCounter < IdsMaxEffects /\ FlashExplode)
    \/ (effectIDCounter < IdsMaxEffects /\ HeExplode)
    \/ ((Len(rounds) < IdsMaxRounds \/ ~isMatchStarted) /\ RoundStart)
    \/ (currentTickCount < IdsMaxTickCount /\ FrameDone)

SpecIds == InitEffects /\ [][NextIds]_vars

(***************************************************************************)
(* Specification of the bridge: the viewer runs one transfer while the     *)
(* worker also handles messages of other senders and time passes           *)
(***************************************************************************)
NextBridge ==
    \/ InvalidMessage
    \/ UnsupportedMessage
    \/ \E url \in Urls : ResolveDemoUrl(url)
    \/ \E to \in Senders, url \in Urls :
          ((ensureHttpUrl(url).ok =>
               uuidCounter + Cardinality(pending) < BridgeMaxRequests)
           /\ ProxyFetchBegin(to, url))
    \/ \E p \in pending, httpOk \in BOOLEAN, size \in ArchiveSizes :
          CompleteFetch(p, httpOk, size)
    \/ \E to \in Senders, requestId \in RequestIds, offset \in ChunkOffsets :
          ProxyFetchChunk(to, requestId, offset)
    \/ \E to \in Senders, requestId \in RequestIds : ProxyFetchEnd(to, requestId)
    \/ BridgeTimeout
    \/ (now % CACHE_TTL_MS < BridgeMaxSlack /\ ClockAdvance(1))
    \/ (now <= BridgeMaxSlack /\ ClockAdvance(CACHE_TTL_MS))

SpecBridge == InitEffects /\ [][NextBridge]_vars

(***************************************************************************)
(* Specification of early expiry: smokes and fires open and expire, frames *)
(* are emitted, and the tick advances by one or by a smoke's duration      *)
(***************************************************************************)
NextExpiry ==
    \/ (effectIDCounter < ExpiryMaxEffects /\ \E eid \in EntityIDs : SmokeStart(eid))
    \/ (effectIDCounter < ExpiryMaxEffects /\ \E eid \in EntityIDs : FireGrenadeStart(eid))
    \/ \E eid \in EntityIDs \cup {-1} : SmokeExpired(eid)
    \/ \E eid \in EntityIDs \cup {-1} : FireGrenadeExpired(eid)
    \/ (currentTickCount < ExpiryMaxTickCount /\ FrameDone)
    \/ (ingameTick % smokeDurationTicks < ExpiryMaxSlack /\ AdvanceTick(1))
    \/ (ingameTick <= ExpiryMaxSlack /\ AdvanceTick(smokeDurationTicks))

SpecExpiry == InitEffects /\ [][NextExpiry]_vars

(***************************************************************************)
(* Specification of the tallies: kills of every shape between frames       *)
(***************************************************************************)
NextTally ==
    \/ (Len(killEvents) < TallyMaxKills
        /\ \E killer \in Killers, victim \in Victims, assister \in Assisters,
              headshot \in BOOLEAN, w \in Weapons :
              Kill(killer, victim, assister, headshot, w))
    \/ (currentTickCount < TallyMaxTickCount /\ FrameDone)

SpecTally == InitEffects /\ [][NextTally]_vars

(***************************************************************************)
(* Specification of the round-start reset: smokes open, round starts are   *)
(* accepted or ignored as the live match-started query changes, the tick   *)
(* advances and frames are emitted                                         *)
(***************************************************************************)
NextReset ==
    \/ (effectIDCounter < ResetMaxEffects /\ SmokeStart(-1))
    \/ ((Len(rounds) < ResetMaxRounds \/ ~isMatchStarted) /\ RoundStart)
    \/ MatchStartedChange
    \/ (currentTickCount < ResetMaxTickCount /\ FrameDone)
    \/ (ingameTick < ResetMaxTick /\ AdvanceTick(1))

SpecReset == InitEffects /\ [][NextReset]_vars

(***************************************************************************)
(* Specification of the bomb flag: plants, defuses and explosions, round   *)
(* starts before and after the match has started, frames                   *)
(***************************************************************************)
NextBomb ==
    \/ BombPlanted
    \/ BombDefused
    \/ BombExplode
    \/ ((Len(rounds) < BombMaxRounds \/ ~isMatchStarted) /\ RoundStart)
    \/ MatchStartedChange
    \/ (currentTickCount < BombMaxTickCount /\ FrameDone)

SpecBomb == Init /\ [][NextBomb]_vars

(***************************************************************************)
(* Specification of the flash counters over several frames: flashes open,  *)
(* participants are blinded, two frames are emitted                        *)
(***************************************************************************)
NextBlind ==
    \/ (effectIDCounter < BlindMaxEffects /\ FlashExplode)
    \/ ((\A i \in DOMAIN activeEffects :
             activeEffects[i].flashed_ct + activeEffects[i].flashed_t < BlindMaxBlinds)
        /\ \E p \in Blinded : PlayerFlashed(p))
    \/ (currentTickCount < BlindMaxTickCount /\ FrameDone)

SpecBlind == InitEffects /\ [][NextBlind]_vars

(***************************************************************************)
(* Specification of a chunked transfer: the viewer downloads an archive of *)
(* some length while other senders request chunks at any offset; nothing   *)
(* is evicted and no request times out; the event loop keeps delivering    *)
(* the viewer's requests and their answers                                 *)
(***************************************************************************)
ViewerStep ==
    \/ \E url \in Urls : ProxyFetchBegin("viewer", url)
    \/ \E p \in pending, httpOk \in BOOLEAN, size \in TransferSizes :
          CompleteFetch(p, httpOk, size)
    \/ ProxyFetchChunk("viewer", viewerRequestId, viewerOffset)
    \/ ProxyFetchEnd("viewer", viewerRequestId)

NextTransfer ==
    \/ ViewerStep
    \/ \E requestId \in RequestIds, offset \in TransferOffsets :
          ProxyFetchChunk("other", requestId, offset)
    \/ InvalidMessage
    \/ \E url \in Urls : ResolveDemoUrl(url)

SpecTransfer == InitEffects /\ [][NextTransfer]_vars /\ WF_vars(ViewerStep)

(***************************************************************************)
(* Specification of the page's bridge requests: calls of postBridgeRequest *)
(* interleaved with message events and timeouts; a timeout that is armed   *)
(* fires in the end                                                        *)
(***************************************************************************)
\* the message events of the window: the responses the content script
\* posts and their like from another window, and messages with the
\* viewer's own source
WindowMessages ==
    {m \in [eventSource : EventSources, source : DataSources,
            replyTo : ReplyIds, response : DataResponses] :
        m.source = BRIDGE_REQUEST_SOURCE =>
            m.eventSource = "window" /\ m.response = "ok"}

SomeTimeoutFires == \E i \in DOMAIN promises : TimeoutFires(i)

NextPage ==
    \/ bridgeRequestSeq < PageMaxRequests /\
          \E messageType \in BridgeMessageTypes : PostBridgeRequest(messageType)
    \/ \E m \in WindowMessages :
          WindowMessage(m.eventSource, m.source, m.replyTo, m.response)
    \/ SomeTimeoutFires

SpecPage == InitEffects /\ [][NextPage]_vars /\ WF_vars(SomeTimeoutFires)

(***************************************************************************)
(* Properties                                                              *)
(***************************************************************************)
ScoreSum(r) == r.ct_score + r.t_score
EffectIds(effs) == {effs[i].id : i \in DOMAIN effs}

\* C1: the k-th record of the round list has number k, and a round start
\* handled while the match is not confirmed started (the decoder does not
\* report it started, or the latch is still unset afterwards) leaves the
\* round list unchanged.
C1_RoundNumbers ==
    /\ [](\A k \in 1..Len(rounds) : rounds[k].number = k)
    /\ [][(event' = "RoundStart" /\ (~isMatchStarted \/ ~matchStarted'))
             => rounds' = rounds]_vars

\* A round start was ignored after two records were created.
C1_Witness ==
    /\ event = "RoundStart" /\ ~isMatchStarted
    /\ Len(rounds) = 2 /\ rounds[2].number = 2

\* C2: after the roster build the slot map is injective, every CT
\* participant's slot is in 1..5 and every T participant's slot is in 6..10
\* (team membership does not change in SpecBuild).
C2_RosterSlots ==
    rosterBuilt =>
        /\ \A p, q \in DOMAIN rosterMap : p # q => rosterMap[p] # rosterMap[q]
        /\ \A p \in DOMAIN rosterMap :
              /\ team[p] = "CT" => rosterMap[p] \in 1..5
              /\ team[p] = "T" => rosterMap[p] \in 6..10

\* C3: the roster map is empty until it is built, it is written only by the
\* round start that confirms the match, and once built no step changes it.
C3_RosterWrittenOnce ==
    /\ [](~rosterBuilt => DOMAIN rosterMap = {})
    /\ [][rosterBuilt => (rosterBuilt' /\ rosterMap' = rosterMap)]_vars
    /\ [][(rosterMap' # rosterMap \/ rosterBuilt' # rosterBuilt)
             => (event' = "RoundStart" /\ isMatchStarted /\ ~matchStarted
                 /\ matchStarted')]_vars

\* A second round start was accepted after a rostered CT participant moved
\* to T and a new participant joined CT.
C3_Witness ==
    /\ rosterBuilt /\ event = "RoundStart" /\ isMatchStarted /\ Len(rounds) = 2
    /\ \E p \in DOMAIN rosterMap : rosterMap[p] <= 5 /\ team[p] = "T"
    /\ \E q \in Players \ DOMAIN rosterMap : team[q] = "CT"

\* C4: while the match-started latch is unset the scores are 0 and the
\* round list is empty, and a document finalized then has ct_score =
\* t_score = 0 and no rounds.
C4_ZeroBeforeMatchStart ==
    ~matchStarted =>
        /\ ctScore = 0 /\ tScore = 0 /\ rounds = <<>>
        /\ (pc = "done" /\ result.ok) =>
              (result.ct_score = 0 /\ result.t_score = 0 /\ result.rounds = <<>>)

\* A round end was handled before the match start with a raw CT score of 1.
C4_Witness == event = "RoundEnd" /\ ~matchStarted /\ gsCTScore = 1

\* C5: the baseline and the match-start tick are unset until the match
\* start is confirmed, they are assigned only by the round start that
\* confirms it, and no later step changes them.
C5_BaselineOnce ==
    /\ [](~matchStarted =>
            (baseCTScore = 0 /\ baseTScore = 0 /\ matchStartTick = -1))
    /\ [][matchStarted =>
            UNCHANGED <<baseCTScore, baseTScore, matchStartTick>>]_vars
    /\ [][<<baseCTScore, baseTScore, matchStartTick>>' #
             <<baseCTScore, baseTScore, matchStartTick>>
             => (event' = "RoundStart" /\ isMatchStarted /\ ~matchStarted)]_vars

\* A second round start was accepted at another tick and with another raw
\* CT score than those of the confirmation.
C5_Witness ==
    /\ event = "RoundStart" /\ isMatchStarted /\ Len(rounds) = 2
    /\ rounds[2].tick = ingameTick /\ ingameTick # matchStartTick
    /\ gsCTScore # baseCTScore

\* C6: right after a round end handled with the match confirmed, the
\* current scores and the scores of the most recent record are the raw
\* scores minus the baseline.
C6_RelativeScores ==
    (event = "RoundEnd" /\ matchStarted) =>
        /\ Len(rounds) > 0
        /\ ctScore = gsCTScore - baseCTScore
        /\ tScore = gsTScore - baseTScore
        /\ rounds[Len(rounds)].ct_score = ctScore
        /\ rounds[Len(rounds)].t_score = tScore

\* A round end with raw scores 1:1 over a baseline of 1:0.
C6_Witness ==
    /\ event = "RoundEnd" /\ matchStarted
    /\ baseCTScore = 1 /\ baseTScore = 0 /\ gsCTScore = 1 /\ gsTScore = 1
    /\ rounds[Len(rounds)].ct_score = 0 /\ rounds[Len(rounds)].t_score = 1

\* C7: in the exported document ct_score + t_score is non-decreasing in
\* round order.
C7_TotalsNonDecreasing ==
    (pc = "done" /\ result.ok) =>
        \A i, j \in 1..Len(result.rounds) :
            i < j => ScoreSum(result.rounds[i]) <= ScoreSum(result.rounds[j])

\* C8 as claimed: ct_score + t_score of the first round record is 0.
C8_FirstRoundZero ==
    (matchStarted /\ Len(rounds) >= 1) => ScoreSum(rounds[1]) = 0

\* C8 as amended: the round start that confirms the match creates the first
\* round record with ct_score + t_score = 0 and leaves the current scores
\* at 0, and that sum changes only when a round end is handled while the
\* record is the most recent one.
C8_FirstRoundZeroAtCreation ==
    /\ [][(~matchStarted /\ matchStarted') =>
            (Len(rounds') = 1 /\ ScoreSum(rounds'[1]) = 0
             /\ ctScore' = 0 /\ tScore' = 0)]_vars
    /\ [][(Len(rounds) >= 1 /\ ScoreSum(rounds'[1]) # ScoreSum(rounds[1])) =>
            (event' = "RoundEnd" /\ Len(rounds) = 1)]_vars

\* The match start was confirmed while the decoder's CT score was 1.
C8_Witness ==
    /\ event = "RoundStart" /\ isMatchStarted /\ Len(rounds) = 1
    /\ gsCTScore = 1 /\ baseCTScore = 1 /\ ScoreSum(rounds[1]) = 0

\* C9: every effect record of an emitted frame ends at or after the
\* frame's tick.
C9_VisibleNotExpired ==
    \A i \in DOMAIN frames : \A k \in DOMAIN frames[i].grenades :
        frames[i].tick <= frames[i].grenades[k].end_tick

\* A flash is in the frame emitted at its end tick and in no frame after
\* it, with no round start in between.
C9_Witness ==
    /\ rounds = <<>>
    /\ \E i, j \in DOMAIN frames :
          /\ i < j
          /\ \E k \in DOMAIN frames[i].grenades :
                LET g == frames[i].grenades[k]
                IN /\ g.type = "FLASH"
                   /\ g.end_tick = g.start_tick + flashDurationTicks
                   /\ frames[i].tick = g.end_tick
                   /\ frames[j].tick > g.end_tick
                   /\ g.id \notin EffectIds(frames[j].grenades)

\* C10: an effect id that was in a frame and is missing from a later frame
\* is in no frame after that, and is not in the active list.
C10_EvictionPermanent ==
    \A i, j \in DOMAIN frames :
        i < j =>
            \A id \in EffectIds(frames[i].grenades) \ EffectIds(frames[j].grenades) :
                /\ id \notin EffectIds(activeEffects)
                /\ \A k \in DOMAIN frames : j < k => id \notin EffectIds(frames[k].grenades)

\* An effect of the first frame is expired out of the second and third
\* frames while the third frame shows another effect.
C10_Witness ==
    /\ rounds = <<>> /\ Len(frames) = 3
    /\ \E id \in EffectIds(frames[1].grenades) :
          /\ id \notin EffectIds(frames[2].grenades)
          /\ id \notin EffectIds(frames[3].grenades)
    /\ frames[3].grenades # <<>>

\* C11: an early close changes the end tick of at most the first active
\* record (in insertion order) of its entity id and kind: a record whose end
\* tick changes has no earlier record of the same entity id and kind, and
\* the list keeps its length.
C11_ClosesFirstOnly ==
    [][event' \in {"SmokeExpired", "FireGrenadeExpired"} =>
         /\ Len(activeEffects') = Len(activeEffects)
         /\ \A i \in DOMAIN activeEffects :
               activeEffects'[i].end_tick # activeEffects[i].end_tick =>
                   ~\E j \in 1..(i - 1) :
                       /\ activeEffects[j].entity_id = activeEffects[i].entity_id
                       /\ activeEffects[j].type = activeEffects[i].type]_vars

\* The duration the claim gives to an effect of a kind in a stream of
\* native tick rate R
NominalDuration(type, R) ==
    IF type = "SMOKE" THEN 18 * R
    ELSE IF type = "MOLOTOV" THEN 7 * R
    ELSE IF type = "FLASH" THEN R \div 2
    ELSE 20

\* C12: in the exported document every effect record (none is closed early
\* in SpecDurations) has end_tick = start_tick + the duration of its kind at
\* the document's native tick rate: smoke 18*R, fire 7*R, flash R/2,
\* explosive 20 ticks.
C12_DurationsByTickRate ==
    (pc = "done" /\ result.ok) =>
        \A i \in DOMAIN result.frames : \A k \in DOMAIN result.frames[i].grenades :
            LET g == result.frames[i].grenades[k]
            IN g.end_tick = g.start_tick
                              + NominalDuration(g.type, result.original_tick_rate)

\* The record was opened since the last emitted frame: it is in the active
\* list and was not in the list the last frame kept.
OpenedSinceLastFrame(e) ==
    Len(frames) = 0 \/ e.id \notin EffectIds(frames[Len(frames)].grenades)

C14_RoundEndBackfill ==
    [][\A w \in Winners : RoundEnd(w) =>
          /\ Len(rounds') = Len(rounds)
          /\ \A k \in 1..(Len(rounds) - 1) : rounds'[k] = rounds[k]
          /\ Len(rounds) > 0 =>
                rounds'[Len(rounds)] =
                    [rounds[Len(rounds)] EXCEPT
                        !.ct_score = ctScore', !.t_score = tScore',
                        !.winning_team = IF w = "CT" THEN "CT"
                                         ELSE IF w = "T" THEN "T" ELSE ""]]_vars

\* The second round ended 1:1 for T after the first ended 1:0 for CT.
C14_Witness ==
    /\ event = "RoundEnd" /\ Len(rounds) = 2
    /\ rounds[1].ct_score = 1 /\ rounds[1].t_score = 0
    /\ rounds[1].winning_team = "CT"
    /\ rounds[2].ct_score = 1 /\ rounds[2].t_score = 1
    /\ rounds[2].winning_team = "T"

\* C15: a freeze-time end sets freeze_time_tick of the last record to the
\* current tick and changes nothing else of the round list (nothing at all
\* when the list is empty); every record has freeze_time_tick = 0 or
\* freeze_time_tick >= its start tick.
C15_FreezeTimeBackfill ==
    /\ [][RoundFreezetimeEnd =>
            /\ Len(rounds') = Len(rounds)
            /\ \A k \in 1..(Len(rounds) - 1) : rounds'[k] = rounds[k]
            /\ Len(rounds) > 0 =>
                  rounds'[Len(rounds)] =
                      [rounds[Len(rounds)] EXCEPT !.freeze_time_tick = ingameTick]
            /\ UNCHANGED <<frames, killEvents, ctScore, tScore, matchStarted,
                           playerStats, rosterMap, activeEffects>>]_vars
    /\ [](\A k \in DOMAIN rounds :
             rounds[k].freeze_time_tick = 0
             \/ rounds[k].freeze_time_tick >= rounds[k].tick)

\* The freeze time of the second round ended at tick 2, after that of the
\* first round had ended at tick 1.
C15_Witness ==
    /\ event = "RoundFreezetimeEnd" /\ Len(rounds) = 2
    /\ rounds[1].tick = 0 /\ rounds[1].freeze_time_tick = 1
    /\ rounds[2].tick = 1 /\ rounds[2].freeze_time_tick = 2

\* C16: after k raw ticks exactly floor(k / 4) frames exist, so a frame is
\* emitted on a raw tick iff the tick count after the increment is
\* divisible by 4.
C16_FrameCadence ==
    /\ Len(frames) = currentTickCount \div 4
    /\ (pc = "done" /\ result.ok) => Len(result.frames) = currentTickCount \div 4

\* Seven raw ticks were handled and one frame exists.
C16_Witness == event = "FrameDone" /\ currentTickCount = 7 /\ Len(frames) = 1

\* C17 as claimed: every fire event with a shooter is in the fires list of
\* an emitted frame, so none is left pending when the stream has ended.
C17_EveryFireInAFrame ==
    (pc = "done" /\ result.ok) => currentFires = <<>>

\* C17 as amended: a fire event with a shooter is appended to the pending
\* list (one without a shooter changes nothing); an emission appends one
\* frame whose fires list is the pending list, in arrival order, and
\* empties the pending list; no other step changes the pending list or an
\* existing frame.  So an event is in the fires list of the next frame
\* emitted after it, if there is one, and in no other frame.
C17_FiresInNextFrame ==
    /\ [][\A p \in {NoPlayer} \cup Players, w \in Weapons : WeaponFire(p, w) =>
            /\ frames' = frames
            /\ currentFires' =
                  IF p = NoPlayer THEN currentFires
                  ELSE currentFires \o <<[player_id |-> p, weapon |-> w]>>]_vars
    /\ [][frames' # frames =>
            /\ event' = "FrameDone"
            /\ Len(frames') = Len(frames) + 1
            /\ \A i \in DOMAIN frames : frames'[i] = frames[i]
            /\ frames'[Len(frames')].fires = currentFires
            /\ currentFires' = <<>>]_vars
    /\ [][currentFires' # currentFires =>
            (event' = "WeaponFire" \/ frames' # frames)]_vars

\* The second frame carries the two fires received since the first frame,
\* in arrival order, the first frame carries the one received before it,
\* and one more is pending.
C17_Witness ==
    /\ Len(frames) = 2 /\ event = "WeaponFire"
    /\ Len(frames[1].fires) = 1 /\ frames[1].fires[1].player_id = 1
    /\ Len(frames[2].fires) = 2
    /\ frames[2].fires[1].player_id = 3 /\ frames[2].fires[2].player_id = 1
    /\ Len(currentFires) = 1

\* The counters of participant p, zero while the map has no entry
StatsOf(ps, p) == IF p \in DOMAIN ps THEN ps[p] ELSE ZeroStats

PlusIf(cond) == IF cond THEN 1 ELSE 0

\* C18: a kill event adds 1 to the killer's kills (and to the killer's
\* headshots iff the headshot flag is set), 1 to the victim's deaths and 1
\* to the assister's assists, each only for a participant who is present,
\* and changes no other counter; with killer = victim both the kills and
\* the deaths of that participant grow.
C18_KillCounters ==
    [][\A k \in Killers, v \in Victims, a \in Assisters, hs \in BOOLEAN,
         w \in Weapons :
          Kill(k, v, a, hs, w) =>
             /\ DOMAIN playerStats' \subseteq Players
             /\ \A p \in Players :
                   StatsOf(playerStats', p) =
                       [kills |-> StatsOf(playerStats, p).kills + PlusIf(p = k),
                        hs |-> StatsOf(playerStats, p).hs + PlusIf(p = k /\ hs),
                        deaths |-> StatsOf(playerStats, p).deaths + PlusIf(p = v),
                        assists |-> StatsOf(playerStats, p).assists + PlusIf(p = a)]]_vars

\* Participant 1 killed participant 3 with a headshot and then themselves,
\* without an assister.
C18_Witness ==
    /\ event = "Kill" /\ Len(killEvents) = 2
    /\ killEvents[1].killer_id = 1 /\ killEvents[1].victim_id = 3
    /\ killEvents[1].is_headshot
    /\ killEvents[2].killer_id = 1 /\ killEvents[2].victim_id = 1
    /\ ~killEvents[2].is_headshot /\ killEvents[2].assister_id = 0
    /\ StatsOf(playerStats, 1) = [kills |-> 2, hs |-> 1, deaths |-> 1, assists |-> 0]
    /\ StatsOf(playerStats, 3).deaths = 1

\* C19: no step decreases or removes a counter of a participant, and the
\* counters reported for a participant in a frame are at least those
\* reported for the participant in every earlier frame.
C19_StatsMonotonic ==
    /\ [][\A p \in DOMAIN playerStats :
            /\ p \in DOMAIN playerStats'
            /\ playerStats'[p].kills >= playerStats[p].kills
            /\ playerStats'[p].deaths >= playerStats[p].deaths
            /\ playerStats'[p].assists >= playerStats[p].assists
            /\ playerStats'[p].hs >= playerStats[p].hs]_vars
    /\ [](\A i, j \in DOMAIN frames :
             i < j =>
                \A m \in DOMAIN frames[i].players, n \in DOMAIN frames[j].players :
                    frames[i].players[m].id = frames[j].players[n].id =>
                        /\ frames[i].players[m].kills <= frames[j].players[n].kills
                        /\ frames[i].players[m].deaths <= frames[j].players[n].deaths
                        /\ frames[i].players[m].assists <= frames[j].players[n].assists
                        /\ frames[i].players[m].hs <= frames[j].players[n].hs)

\* The first frame, emitted before the match start was confirmed (no roster
\* slot yet), reports one kill of participant 1; the second frame, emitted
\* after the round start and a round end, reports two.
C19_Witness ==
    /\ Len(frames) = 2 /\ Len(rounds) = 1 /\ rounds[1].winning_team = "CT"
    /\ frames[1].players[1].id = 1 /\ frames[1].players[1].roster_index = 0
    /\ frames[1].players[1].kills = 1
    /\ frames[2].players[1].id = 1 /\ frames[2].players[1].roster_index = 1
    /\ frames[2].players[1].kills = 2 /\ frames[2].players[1].hs = 2

\* C20: a kill event appends exactly one record to the kill log (the ids
\* of absent participants are 0) and leaves the earlier records in place;
\* no other step changes the log; the exported kills are the log.
C20_KillLogAppendOnly ==
    /\ [][\A k \in Killers, v \in Victims, a \in Assisters, hs \in BOOLEAN,
            w \in Weapons :
             Kill(k, v, a, hs, w) =>
                killEvents' = killEvents \o
                    <<[tick |-> ingameTick, killer_id |-> k, victim_id |-> v,
                       assister_id |-> a, is_headshot |-> hs, weapon |-> w]>>]_vars
    /\ [][killEvents' # killEvents => event' = "Kill"]_vars
    /\ []((pc = "done" /\ result.ok) => result.kills = killEvents)

\* Two kills were logged before the match start was confirmed, the first
\* without a killer, the second without a victim.
C20_Witness ==
    /\ event = "Kill" /\ ~matchStarted /\ Len(killEvents) = 2
    /\ killEvents[1].killer_id = 0 /\ killEvents[1].victim_id = 1
    /\ killEvents[2].killer_id = 1 /\ killEvents[2].victim_id = 0
    /\ killEvents[2].assister_id = 3

\* C21: the roster map holds no slot 0; a frame reports for each participant
\* the participant's slot when the id is in the roster map at the emission
\* and 0 otherwise; every frame emitted before the match start is
\* confirmed reports 0 for every participant.
C21_RosterIndexSentinel ==
    /\ [](\A p \in DOMAIN rosterMap : rosterMap[p] # 0)
    /\ [][frames' # frames =>
            \A k \in DOMAIN frames'[Len(frames')].players :
                LET e == frames'[Len(frames')].players[k]
                IN e.roster_index =
                      IF e.id \in DOMAIN rosterMap THEN rosterMap[e.id] ELSE 0]_vars
    /\ [](~matchStarted =>
             \A i \in DOMAIN frames : \A k \in DOMAIN frames[i].players :
                 frames[i].players[k].roster_index = 0)

\* A frame emitted after the roster build reports slot 1 for the rostered
\* CT participant and 0 for a participant who joined CT after the build.
C21_Witness ==
    /\ rosterBuilt /\ Len(frames) = 1
    /\ \E k, m \in DOMAIN frames[1].players :
          /\ frames[1].players[k].id \in DOMAIN rosterMap
          /\ frames[1].players[k].roster_index = 1
          /\ frames[1].players[m].id \notin DOMAIN rosterMap
          /\ frames[1].players[m].team = "CT"
          /\ frames[1].players[m].roster_index = 0

\* C22: two participants of one team with the same display name (1 and 2)
\* get their slots in the order of the participant list, where 1 precedes 2.
C22_StableTieBreak ==
    (rosterBuilt /\ team[1] = team[2] /\ team[1] \in {"CT", "T"}) =>
        rosterMap[1] < rosterMap[2]

\* C27: within each team the slots follow the ascending display names, the
\* CT slots are 1..n for n CT participants and the T slots 6..5+m for m T
\* participants (team membership does not change in SpecBuild).
C27_SlotsFollowNames ==
    rosterBuilt =>
        LET ct == {p \in DOMAIN rosterMap : team[p] = "CT"}
            t == {p \in DOMAIN rosterMap : team[p] = "T"}
        IN /\ DOMAIN rosterMap = Playing(team)
           /\ \A a, b \in ct : Name[a] < Name[b] => rosterMap[a] < rosterMap[b]
           /\ \A a, b \in t : Name[a] < Name[b] => rosterMap[a] < rosterMap[b]
           /\ {rosterMap[p] : p \in ct} = 1..Cardinality(ct)
           /\ {rosterMap[p] : p \in t} = 6..(5 + Cardinality(t))

\* Participants 3 and 4 are on CT, 5 and 6 on T; names descend with the id,
\* so 4 precedes 3 and 6 precedes 5.
C27_Witness ==
    /\ rosterBuilt /\ event = "RoundStart"
    /\ TeamMembers(team, "CT") = {3, 4} /\ TeamMembers(team, "T") = {5, 6}
    /\ rosterMap[4] = 1 /\ rosterMap[3] = 2
    /\ rosterMap[6] = 6 /\ rosterMap[5] = 7

\* C23: ParseDemo returns a document exactly when the decoder ended
\* normally or with the unexpected-end error and the document serializes;
\* the document then holds every frame, round and kill accumulated so far;
\* in every other case nothing but the error is returned.
C23_DocumentOrError ==
    [][\A err \in Errors, tr \in TickRates, marshals \in BOOLEAN :
          Export(err, tr, marshals) =>
             /\ result'.ok <=> (err \in {"nil", "ErrUnexpectedEndOfDemo"} /\ marshals)
             /\ result'.ok => /\ result'.frames = frames
                              /\ result'.rounds = rounds
                              /\ result'.kills = killEvents
             /\ ~result'.ok => result' = [ok |-> FALSE]]_vars

\* A truncated stream gave a document with the frame, the round and the
\* kill handled before the truncation.
C23_Witness ==
    /\ pc = "done" /\ event = "ErrUnexpectedEndOfDemo" /\ result.ok
    /\ Len(result.frames) = 1 /\ Len(result.rounds) = 1 /\ Len(result.kills) = 1

\* C24: in the document original_tick_rate is the reported tick rate when
\* that is positive and 64 otherwise, and tick_rate (a fraction) equals
\* original_tick_rate / 4.
C24_TickRates ==
    [][\A err \in Errors, tr \in TickRates, marshals \in BOOLEAN :
          (Export(err, tr, marshals) /\ result'.ok) =>
             /\ result'.original_tick_rate = IF tr > 0 THEN tr ELSE 64
             /\ result'.tick_rate.den # 0
             /\ result'.tick_rate.num * 4 =
                   result'.original_tick_rate * result'.tick_rate.den]_vars

\* A document with the tick rates 128 and 128/4.
C24_Witness ==
    /\ pc = "done" /\ result.ok /\ result.original_tick_rate = 128
    /\ result.tick_rate = [num |-> 128, den |-> 4]

\* every effect record in the active list or in an emitted frame
AllEffectRecords ==
    {activeEffects[i] : i \in DOMAIN activeEffects}
        \cup UNION {{frames[i].grenades[k] : k \in DOMAIN frames[i].grenades} :
                       i \in DOMAIN frames}

\* C28: effect ids are unique and strictly increasing in creation order over
\* the whole run, across all four kinds: the counter never decreases, not
\* even at a round start; a new record gets an id above every id given
\* before; the active list is in increasing id order; and two records with
\* the same id, in the list or in any frame, are the same effect.
C28_EffectIdsMonotonic ==
    /\ [][effectIDCounter' >= effectIDCounter]_vars
    /\ [][Len(activeEffects') = Len(activeEffects) + 1 =>
            /\ activeEffects'[Len(activeEffects')].id > effectIDCounter
            /\ activeEffects'[Len(activeEffects')].id = effectIDCounter']_vars
    /\ [](\A e \in AllEffectRecords : e.id \in 1..effectIDCounter)
    /\ [](\A i, j \in DOMAIN activeEffects :
             i < j => activeEffects[i].id < activeEffects[j].id)
    /\ [](\A a, b \in AllEffectRecords :
             a.id = b.id => (a.type = b.type /\ a.start_tick = b.start_tick
                             /\ a.entity_id = b.entity_id))

\* A smoke got id 1 and was emitted in a frame, a round start cleared the
\* list, and the flash opened after it got id 2.
C28_Witness ==
    /\ Len(frames) = 1 /\ Len(rounds) = 1
    /\ Len(frames[1].grenades) = 1
    /\ frames[1].grenades[1].id = 1 /\ frames[1].grenades[1].type = "SMOKE"
    /\ Len(activeEffects) = 1
    /\ activeEffects[1].id = 2 /\ activeEffects[1].type = "FLASH"

\* C29 as stated: once match start has been confirmed, every round-start
\* signal creates exactly one new round record, whatever the decoder's live
\* match-started query reports.
C29_EveryStartCreatesRecord ==
    [][(matchStarted /\ RoundStart) => Len(rounds') = Len(rounds) + 1]_vars

\* C29: once match start has been confirmed, a round-start signal creates
\* exactly one new round record when the decoder's live match-started query
\* reports started at that moment, and leaves the round list unchanged when
\* it reports not started.
C29_StartGatedByLiveQuery ==
    [][(matchStarted /\ RoundStart) =>
          IF isMatchStarted
          THEN /\ Len(rounds') = Len(rounds) + 1
               /\ SubSeq(rounds', 1, Len(rounds)) = rounds
          ELSE rounds' = rounds]_vars

\* A round start was handled after the confirmation while the live query
\* reported not started: the list still has the one record of the
\* confirming round start.
C29_Witness ==
    /\ event = "RoundStart" /\ matchStarted /\ ~isMatchStarted
    /\ Len(rounds) = 1

\* C30: a round record is final once concluded: after a round end has
\* back-filled its ct_score, t_score and winner (here: a record that carries
\* a winner label, which only a round end writes), no later event changes
\* those three fields of that record.
C30_ConcludedIsFinal ==
    [][\A k \in DOMAIN rounds :
          rounds[k].winning_team # "" =>
             /\ rounds'[k].ct_score = rounds[k].ct_score
             /\ rounds'[k].t_score = rounds[k].t_score
             /\ rounds'[k].winning_team = rounds[k].winning_team]_vars

\* the urls whose protocol is http or https
HttpUrls == {u \in Urls : UrlProtocol(u) \in {"http:", "https:"}}

\* C25: the background worker accepts only http and https urls: a
\* RESOLVE_DEMO_URL or PROXY_FETCH_BEGIN message whose url is unparsable or
\* has another protocol is answered with {ok: false, error}, issues no
\* network fetch and adds no entry to the archive cache (neither at once
\* nor through a download left in flight); every fetch issued and every
\* download in flight is for an http or https url.
C25_OnlyHttpUrls ==
    /\ [][\A to \in Senders, url \in Urls \ HttpUrls :
            (ResolveDemoUrl(url) \/ ProxyFetchBegin(to, url)) =>
               /\ ~response'.ok /\ response'.error # ""
               /\ response'.type \in {"RESOLVE_DEMO_URL", "PROXY_FETCH_BEGIN"}
               /\ fetchIssued' = NoFetch
               /\ pending' = pending
               /\ uuidCounter' = uuidCounter
               /\ DOMAIN archiveCache' \subseteq DOMAIN archiveCache]_vars
    /\ [](fetchIssued # NoFetch => fetchIssued \in HttpUrls)
    /\ [](\A p \in pending : p.url \in HttpUrls)

\* The viewer's FETCH_BEGIN for a file: url was rejected while the cache
\* held another sender's archive: no fetch, no new entry, the viewer threw.
C25_Witness ==
    /\ response = [to |-> "viewer", type |-> "PROXY_FETCH_BEGIN", ok |-> FALSE,
                   error |-> "Unsupported URL protocol"]
    /\ fetchIssued = NoFetch /\ pending = {}
    /\ DOMAIN archiveCache = {1} /\ uuidCounter = 1
    /\ viewerPc = "thrown" /\ viewerRequestId = NoRequest

\* a step in which the worker's listener is called with a message
MessageArrives ==
    \/ InvalidMessage
    \/ UnsupportedMessage
    \/ \E url \in Urls : ResolveDemoUrl(url)
    \/ \E to \in Senders, url \in Urls : ProxyFetchBegin(to, url)
    \/ \E to \in Senders, requestId \in RequestIds, offset \in ChunkOffsets :
          ProxyFetchChunk(to, requestId, offset)
    \/ \E to \in Senders, requestId \in RequestIds : ProxyFetchEnd(to, requestId)

OpenDuration(type) ==
    CASE type = "SMOKE" -> smokeDurationTicks
      [] type = "MOLOTOV" -> molotovDurationTicks
      [] type = "FLASH" -> flashDurationTicks
      [] OTHER -> heDurationTicks

\* C31: an early close never extends an effect's lifetime: a SmokeExpired or
\* FireGrenadeExpired event leaves every active record with an end tick less
\* than or equal to its end tick before the event, so no effect is in a
\* frame whose tick exceeds its start tick plus the duration of its kind.
C31_CloseNeverExtends ==
    /\ [][\A eid \in EntityIDs \cup {-1} :
            (SmokeExpired(eid) \/ FireGrenadeExpired(eid)) =>
               /\ Len(activeEffects') = Len(activeEffects)
               /\ \A i \in DOMAIN activeEffects :
                     activeEffects'[i].end_tick <= activeEffects[i].end_tick]_vars
    /\ [](\A i \in DOMAIN frames : \A k \in DOMAIN frames[i].grenades :
             frames[i].tick <= frames[i].grenades[k].start_tick
                                 + OpenDuration(frames[i].grenades[k].type))

\* the number of records of the kill log that satisfy Test
CountKills(log, Test(_)) == Cardinality({k \in DOMAIN log : Test(log[k])})

\* C32: in every emitted frame each participant's kills, deaths, assists
\* and hs equal the number of kill-log records appended before that frame in
\* which the participant is the killer, the victim, the assister, and the
\* killer with the headshot flag set; hence hs <= kills; emitted frames are
\* not changed afterwards.
C32_FrameStatsMatchKillLog ==
    /\ [][frames' # frames =>
            /\ Len(frames') = Len(frames) + 1
            /\ SubSeq(frames', 1, Len(frames)) = frames
            /\ \A m \in DOMAIN frames'[Len(frames')].players :
                  LET e == frames'[Len(frames')].players[m]
                      IsKiller(ke) == ke.killer_id = e.id
                      IsVictim(ke) == ke.victim_id = e.id
                      IsAssister(ke) == ke.assister_id = e.id
                      IsHs(ke) == ke.killer_id = e.id /\ ke.is_headshot
                  IN /\ e.id # 0
                     /\ e.kills = CountKills(killEvents, IsKiller)
                     /\ e.deaths = CountKills(killEvents, IsVictim)
                     /\ e.assists = CountKills(killEvents, IsAssister)
                     /\ e.hs = CountKills(killEvents, IsHs)]_vars
    /\ [](\A i \in DOMAIN frames : \A m \in DOMAIN frames[i].players :
             frames[i].players[m].hs <= frames[i].players[m].kills)

\* Two kills by participant 1 at tick 0, one of them a headshot, were
\* handled before the frame of tick 0: the frame counts both, and the
\* deaths of participant 3.
C32_Witness ==
    /\ Len(frames) = 1 /\ frames[1].tick = 0
    /\ Len(killEvents) = 2 /\ killEvents[1].tick = 0 /\ killEvents[2].tick = 0
    /\ \E m \in DOMAIN frames[1].players :
          /\ frames[1].players[m].id = 1
          /\ frames[1].players[m].kills = 2 /\ frames[1].players[m].hs = 1
    /\ \E m \in DOMAIN frames[1].players :
          /\ frames[1].players[m].id = 3 /\ frames[1].players[m].deaths = 2

\* C33: an accepted round start empties the active-effect list and an
\* ignored one leaves it unchanged; a frame lists only records of the active
\* list, and the list gets new records only with ids not given before; so
\* no effect opened before an accepted round start is in a frame emitted
\* after it: no frame with a tick after a round's start tick lists an
\* effect that started before that tick.
C33_RoundStartClearsEffects ==
    /\ [][RoundStart => activeEffects' = IF isMatchStarted THEN <<>> ELSE activeEffects]_vars
    /\ [][frames' # frames =>
            EffectIds(frames'[Len(frames')].grenades) \subseteq EffectIds(activeEffects)]_vars
    /\ [][\A i \in DOMAIN activeEffects' :
            \/ activeEffects'[i].id \in EffectIds(activeEffects)
            \/ activeEffects'[i].id > effectIDCounter]_vars
    /\ [](\A i \in DOMAIN frames, k \in DOMAIN rounds :
             frames[i].tick > rounds[k].tick =>
                \A g \in DOMAIN frames[i].grenades :
                   frames[i].grenades[g].start_tick >= rounds[k].tick)

\* A smoke opened at tick 0 was cleared by the accepted round start at
\* tick 1, long before its end tick, and the frame of tick 2 lists no
\* effect.
C33_Witness ==
    /\ event = "FrameDone" /\ Len(frames) = 1 /\ frames[1].tick = 2
    /\ frames[1].grenades = <<>>
    /\ effectIDCounter = 1 /\ Len(rounds) = 1 /\ rounds[1].tick = 1
    /\ matchStartTick = 1

\* C34 as stated: a frame's bomb.is_planted is true iff the most recent
\* event among bomb-planted, bomb-defused, bomb-exploded and round-start
\* before it is bomb-planted, every round-start signal included.
C34_FlagResetByEveryRoundStart ==
    /\ [][BombPlanted => isBombPlanted']_vars
    /\ [][(BombDefused \/ BombExplode \/ RoundStart) => ~isBombPlanted']_vars
    /\ [][isBombPlanted' # isBombPlanted =>
            (BombPlanted \/ BombDefused \/ BombExplode \/ RoundStart)]_vars
    /\ [][frames' # frames =>
            frames'[Len(frames')].bomb.is_planted = isBombPlanted]_vars

\* C34: a frame's bomb.is_planted is true iff the most recent event among
\* bomb-planted, bomb-defused, bomb-exploded and accepted round-start before
\* it is bomb-planted; a round start that is ignored because the match is
\* not reported started leaves the flag as it was.
C34_FlagResetByAcceptedRoundStart ==
    /\ [][BombPlanted => isBombPlanted']_vars
    /\ [][(BombDefused \/ BombExplode \/ (RoundStart /\ isMatchStarted))
            => ~isBombPlanted']_vars
    /\ [][(RoundStart /\ ~isMatchStarted) => isBombPlanted' = isBombPlanted]_vars
    /\ [][isBombPlanted' # isBombPlanted =>
            (BombPlanted \/ BombDefused \/ BombExplode
               \/ (RoundStart /\ isMatchStarted))]_vars
    /\ [][frames' # frames =>
            frames'[Len(frames')].bomb.is_planted = isBombPlanted]_vars

\* The bomb was planted before the match started, a frame reported it, and
\* the round start just handled was ignored: the flag is still set.
C34_Witness ==
    /\ event = "RoundStart" /\ ~isMatchStarted /\ ~matchStarted
    /\ isBombPlanted
    /\ Len(frames) = 1 /\ frames[1].bomb.is_planted

\* the ids of the effects listed in some emitted frame
EmittedIds == UNION {EffectIds(frames[i].grenades) : i \in DOMAIN frames}

\* C35: for any effect id, flashed_ct and flashed_t are identical in every
\* frame in which the effect appears; a blind event changes only records
\* that no frame has listed yet; emitted frames are never altered.
C35_FlashCountersFixed ==
    /\ [](\A i, j \in DOMAIN frames :
             \A g \in DOMAIN frames[i].grenades, h \in DOMAIN frames[j].grenades :
                frames[i].grenades[g].id = frames[j].grenades[h].id =>
                   /\ frames[i].grenades[g].flashed_ct = frames[j].grenades[h].flashed_ct
                   /\ frames[i].grenades[g].flashed_t = frames[j].grenades[h].flashed_t)
    /\ [][\A p \in Blinded :
            PlayerFlashed(p) =>
               \A i \in DOMAIN activeEffects :
                  activeEffects'[i] # activeEffects[i] =>
                     activeEffects[i].id \notin EmittedIds]_vars
    /\ [][/\ Len(frames') >= Len(frames)
          /\ SubSeq(frames', 1, Len(frames)) = frames]_vars

\* Flash 1 blinded a CT before the first frame and is listed with the same
\* counters in both frames; flash 2, opened after the first frame, blinded a
\* T and is listed in the second frame.
C35_Witness ==
    /\ Len(frames) = 2
    /\ Len(frames[1].grenades) = 1 /\ Len(frames[2].grenades) = 2
    /\ frames[1].grenades[1].id = 1 /\ frames[2].grenades[1].id = 1
    /\ frames[1].grenades[1].flashed_ct = 1 /\ frames[2].grenades[1].flashed_ct = 1
    /\ frames[1].grenades[1].flashed_t = 0 /\ frames[2].grenades[1].flashed_t = 0
    /\ frames[2].grenades[2].id = 2 /\ frames[2].grenades[2].flashed_t = 1

\* C36: the match-start tick and the round list are consistent in every
\* reachable state: match_start_tick = -1 iff the round list is empty, and
\* otherwise it is the start tick of round record number 1; the exported
\* document carries the same pair.
C36_MatchStartTickIsFirstRound ==
    /\ (matchStartTick = -1 <=> rounds = <<>>)
    /\ (rounds # <<>> => (rounds[1].number = 1 /\ matchStartTick = rounds[1].tick))
    /\ ((pc = "done" /\ result.ok) =>
           (result.match_start_tick = matchStartTick /\ result.rounds = rounds))

\* The match was confirmed at tick 0 by the first round start; the second
\* round started at tick 1 and the match-start tick is still that of
\* round 1.
C36_Witness ==
    /\ Len(rounds) = 2 /\ rounds[1].tick = 0 /\ rounds[2].tick = 1
    /\ matchStartTick = 0

\* C37: the final scores agree with the round ledger: a round end handled
\* after the match-start confirmation leaves the last round record with the
\* current match scores; only round ends and accepted round starts change
\* the match scores or the round list; the exported document carries both.
C37_FinalScoresMatchLedger ==
    /\ [][\A w \in Winners :
            (RoundEnd(w) /\ matchStarted) =>
               /\ rounds' # <<>>
               /\ rounds'[Len(rounds')].ct_score = ctScore'
               /\ rounds'[Len(rounds')].t_score = tScore']_vars
    /\ [][(ctScore' # ctScore \/ tScore' # tScore \/ rounds' # rounds) =>
            ((\E w \in Winners : RoundEnd(w)) \/ (RoundStart /\ isMatchStarted))]_vars
    /\ []((event = "RoundEnd" /\ matchStarted) =>
             /\ rounds[Len(rounds)].ct_score = ctScore
             /\ rounds[Len(rounds)].t_score = tScore)
    /\ []((pc = "done" /\ result.ok) =>
             /\ result.ct_score = ctScore /\ result.t_score = tScore
             /\ result.rounds = rounds)

\* A document exported after the round end of the second round: its final
\* scores 1:1 are those of its last round record.
C37_Witness ==
    /\ pc = "done" /\ result.ok
    /\ Len(result.rounds) = 2
    /\ result.ct_score = 1 /\ result.t_score = 1
    /\ result.rounds[2].ct_score = 1 /\ result.rounds[2].t_score = 1
    /\ result.rounds[2].winning_team = "T"
    /\ result.rounds[1].ct_score = 1 /\ result.rounds[1].t_score = 0

Min(a, b) == IF a < b THEN a ELSE b
Max(a, b) == IF a > b THEN a ELSE b

\* the viewer's transfer is complete: every chunk answer the viewer gets
\* holds the archive bytes from its own offset on and moves the offset to
\* the chunk's end; the function returns only with offset = L; and a
\* transfer in its loop comes to an end
TransferCompletes ==
    /\ [][(ProxyFetchChunk("viewer", viewerRequestId, viewerOffset) /\ response'.ok) =>
            /\ response'.body.offset = viewerOffset
            /\ response'.body.nextOffset > viewerOffset
            /\ viewerOffset' = response'.body.nextOffset
            /\ viewerOffset' <= viewerSize]_vars
    /\ [](viewerPc = "returned" => viewerOffset = viewerSize)
    /\ [](viewerPc \in {"loop", "finally"} =>
             (viewerRequestId \in DOMAIN archiveCache
                /\ archiveCache[viewerRequestId].size = viewerSize))
    /\ (viewerPc = "loop" ~> viewerPc = "returned")

\* C38 as stated: a PROXY_FETCH_CHUNK at offset o for a cached archive of
\* length L returns the bytes [min(max(o,0),L), min(o+524288, L)), with
\* nextOffset that end and done iff nextOffset >= L; the viewer's transfer
\* is complete.
C38_ChunkEndFromOffset ==
    /\ [][\A to \in Senders, requestId \in RequestIds, o \in TransferOffsets \cup {viewerOffset} :
            (ProxyFetchChunk(to, requestId, o) /\ requestId \in DOMAIN archiveCache) =>
               LET L == archiveCache[requestId].size
               IN /\ response'.ok
                  /\ response'.body.offset = Min(Max(o, 0), L)
                  /\ response'.body.nextOffset = Min(o + 524288, L)
                  /\ response'.body.done <=> response'.body.nextOffset >= L]_vars
    /\ TransferCompletes

\* C38: a PROXY_FETCH_CHUNK at offset o for a cached archive of length L
\* returns the bytes [s, min(s+524288, L)) with s = min(max(o,0),L), with
\* nextOffset that end and done iff nextOffset >= L; the viewer's transfer
\* is complete.
C38_ChunkEndFromStart ==
    /\ [][\A to \in Senders, requestId \in RequestIds, o \in TransferOffsets \cup {viewerOffset} :
            (ProxyFetchChunk(to, requestId, o) /\ requestId \in DOMAIN archiveCache) =>
               LET L == archiveCache[requestId].size
                   start == Min(Max(o, 0), L)
               IN /\ response'.ok
                  /\ response'.body.offset = start
                  /\ response'.body.nextOffset = Min(start + 524288, L)
                  /\ response'.body.done <=> response'.body.nextOffset >= L]_vars
    /\ TransferCompletes

\* The viewer returned an archive of two full chunks after two chunk
\* requests, and the answer last sent is the failure of another sender's
\* chunk request for the archive the viewer has released.
C38_Witness ==
    /\ viewerPc = "returned" /\ viewerSize = 2 * CHUNK_SIZE
    /\ viewerOffset = 2 * CHUNK_SIZE /\ viewerEndSent
    /\ response.to = "other" /\ response.type = "PROXY_FETCH_CHUNK"
    /\ ~response.ok

Settled(promise) == promise.outcome.state # "pending"

\* the outcome onMessage gives a promise for a response
ResponseOutcome(resp) ==
    IF resp = "missing" THEN Rejected("Invalid extension bridge response")
    ELSE IF resp = "failed" THEN Rejected("Extension bridge request failed")
    ELSE Resolved

\* C39: the request ids of the calls of postBridgeRequest are pairwise
\* distinct; every promise has resolve or reject called at most once, and
\* once settled it has neither listener nor timeout and never changes
\* again; a promise changes only by its own timeout, which rejects it, or
\* by a message event of the window with the extension's source and
\* replyTo equal to its own id, which settles it by the response; and
\* every call is settled in the end.
C39_RequestsCorrelated ==
    /\ [](\A i, j \in DOMAIN promises :
            i # j => promises[i].requestId # promises[j].requestId)
    /\ [](\A i \in DOMAIN promises :
            /\ promises[i].calls <= 1
            /\ promises[i].calls = 1 <=> Settled(promises[i])
            /\ Settled(promises[i]) =>
                  ~promises[i].listening /\ ~promises[i].timeout)
    /\ [][\A i \in DOMAIN promises :
            promises'[i] # promises[i] =>
               /\ ~Settled(promises[i]) /\ Settled(promises'[i])
               /\ \/ /\ TimeoutFires(i)
                     /\ promises'[i].outcome =
                          Rejected("Extension bridge timeout (" \o promises[i].messageType \o ")")
                  \/ /\ lastMessage'.eventSource = "window"
                     /\ lastMessage'.source = BRIDGE_RESPONSE_SOURCE
                     /\ lastMessage'.replyTo = promises[i].requestId
                     /\ WindowMessage("window", BRIDGE_RESPONSE_SOURCE,
                                      promises[i].requestId, lastMessage'.response)
                     /\ promises'[i].outcome = ResponseOutcome(lastMessage'.response)]_vars
    /\ \A k \in 1..PageMaxRequests :
          (Len(promises) >= k) ~> (Len(promises) >= k /\ Settled(promises[k]))

\* Two calls were made. The second was resolved by its response; the first
\* was rejected by its timeout, and the message event dispatched last is a
\* successful response to the first call, which came too late to settle it.
C39_Witness ==
    /\ Len(promises) = 2
    /\ promises[1].outcome = Rejected("Extension bridge timeout (FETCH_BEGIN)")
    /\ promises[2].outcome = Resolved
    /\ lastMessage.eventSource = "window"
    /\ lastMessage.source = BRIDGE_RESPONSE_SOURCE
    /\ lastMessage.replyTo = promises[1].requestId
    /\ lastMessage.response = "ok"

====
